---- MODULE Spec2Model ----
(***************************************************************************)
(* Model of the text segmentation and field-extraction engine of           *)
(* mtg_packing_slip_organizer.py.                                          *)
(*                                                                         *)
(* Python strings are TLA+ strings; s[i:j] is SubSeq, + is \o.  The         *)
(* character classes cover the code points up to U+00FF; the texts the     *)
(* specifications draw are ASCII, control characters included.  Lists are  *)
(* sequences.  Six specifications share the module:                        *)
(*   Spec       merge_continuation_lines followed by the loop of           *)
(*              parse_packing_slip, one action per loop branch;            *)
(*   SpecSplit  extract_set_and_card applied to a drawn description;       *)
(*   SpecParse  parse_card_line applied to a drawn merged line;            *)
(*   SpecName   add_spaces_to_card_name applied twice to a drawn name;     *)
(*   SpecEnrich the loop of fetch_colors_from_scryfall over drawn cards;   *)
(*   SpecSets   calls of fetch_scryfall_sets and get_scryfall_set_code.    *)
(***************************************************************************)
EXTENDS Integers, Sequences, FiniteSets, TLC

VARIABLES
    pc,           \* which machine, and where it stands
    lines,        \* merge_continuation_lines: the argument `lines`
    pos,          \* number of lines the for loop has consumed
    merged,       \* the local list `merged`
    current,      \* the local string `current`
    ppos,         \* parse_packing_slip: number of merged lines consumed
    cards,        \* parse_packing_slip: the list `cards`
    warnings,     \* parse_packing_slip: the lines reported as "Could not parse"
    description,  \* extract_set_and_card: the argument
    split,        \* extract_set_and_card: the returned pair
    pline,        \* parse_card_line: the argument
    pcard,        \* parse_card_line: the returned Card, or None
    raw_name,     \* add_spaces_to_card_name: the argument
    spaced,       \* add_spaces_to_card_name(raw_name)
    respaced,     \* add_spaces_to_card_name(spaced)
    epos,         \* fetch_colors_from_scryfall: number of cards the loop has done
    image_cache,  \* the dict image_cache: (set_name, collector_number) -> image_url
    color_cache,  \* the dict color_cache: search name in lower case -> color
    failed_lookups, \* the list failed_lookups
    lookups,      \* the positions of the cards search_scryfall was called for
    scryfall_set_cache, \* the global _scryfall_set_cache: None, or the mapping
    set_requests, \* the requests made for the remote set list, each by its outcome
    set_calls,    \* the number of calls of fetch_scryfall_sets made
    set_returned, \* what the last call of fetch_scryfall_sets returned
    set_code      \* what the last call of get_scryfall_set_code returned

mergeVars == <<lines, pos, merged, current>>
slipVars  == <<ppos, cards, warnings>>
splitVars == <<description, split>>
parseVars == <<pline, pcard>>
nameVars  == <<raw_name, spaced, respaced>>
enrichVars == <<epos, image_cache, color_cache, failed_lookups, lookups>>
setVars == <<scryfall_set_cache, set_requests, set_calls, set_returned, set_code>>
vars == <<pc, lines, pos, merged, current, ppos, cards, warnings,
          description, split, pline, pcard, raw_name, spaced, respaced,
          epos, image_cache, color_cache, failed_lookups, lookups,
          scryfall_set_cache, set_requests, set_calls, set_returned, set_code>>

\* fetch_colors_from_scryfall has not been entered
EnrichIdle ==
    /\ epos = 0
    /\ image_cache = <<>>
    /\ color_cache = <<>>
    /\ failed_lookups = <<>>
    /\ lookups = <<>>

\* the process has started: _scryfall_set_cache is None, nothing was called
SetsIdle ==
    /\ scryfall_set_cache = <<>>
    /\ set_requests = <<>>
    /\ set_calls = 0
    /\ set_returned = <<>>
    /\ set_code = <<>>

(***************************************************************************)
(* Bounds of the model.                                                    *)
(***************************************************************************)
MaxLines == 3
MaxSplitTokens == 4
MaxParseTokens == 3

(***************************************************************************)
(* String helpers: the Python str and re primitives the code uses.         *)
(***************************************************************************)
Ch(s, i) == SubSeq(s, i, i)

Digits == {"0", "1", "2", "3", "4", "5", "6", "7", "8", "9"}

\* the letters of [A-Z]
AsciiUpper == {"A", "B", "C", "D", "E", "F", "G", "H", "I", "J", "K", "L", "M",
               "N", "O", "P", "Q", "R", "S", "T", "U", "V", "W", "X", "Y", "Z"}

\* the characters str.isupper() holds for; the alphabet of the model is the
\* code points up to U+00FF
UpperCase ==
    AsciiUpper \cup
    {"À", "Á", "Â", "Ã", "Ä", "Å", "Æ", "Ç", "È", "É",
     "Ê", "Ë", "Ì", "Í", "Î", "Ï", "Ð", "Ñ", "Ò", "Ó",
     "Ô", "Õ", "Ö", "Ø", "Ù", "Ú", "Û", "Ü", "Ý", "Þ"}

\* the characters \s matches and str.strip() removes: blank, \t, \n, \r, \f,
\* \v, U+001C to U+001F, U+0085 and the no-break space
WhiteSpace ==
    {" ", "\t", "\n", "", "\f", "\r", "", "", "", "", "", " "}

IsDigit(c) == c \in Digits

IsUpper(c) == c \in UpperCase

IsSpace(c) == c \in WhiteSpace

SetMin(S) == CHOOSE x \in S : \A y \in S : x <= y

\* s[i-1:].startswith(p), i counted from 1
StartsWithAt(s, i, p) ==
    /\ i >= 1
    /\ i + Len(p) - 1 <= Len(s)
    /\ SubSeq(s, i, i + Len(p) - 1) = p

StartsWith(s, p) == StartsWithAt(s, 1, p)

\* s[i-1:]
From(s, i) == IF i > Len(s) THEN "" ELSE SubSeq(s, i, Len(s))

\* s[:i-1]
Before(s, i) == IF i <= 1 THEN "" ELSE SubSeq(s, 1, i - 1)

\* s[i-1:j], empty when j < i
Between(s, i, j) == IF j < i THEN "" ELSE SubSeq(s, i, j)

\* s.find(p) + 1: the first index at which p occurs, 0 when it does not
FindFrom(s, p, i) ==
    LET hits == {j \in i..(Len(s) - Len(p) + 1) : StartsWithAt(s, j, p)}
    IN  IF hits = {} THEN 0 ELSE SetMin(hits)

Find(s, p) == FindFrom(s, p, 1)

\* p in s
Contains(s, p) == Find(s, p) > 0

\* the index after the longest run of digits (\d*) that starts at i
RECURSIVE DigitRunEnd(_, _)
DigitRunEnd(s, i) ==
    IF i <= Len(s) /\ IsDigit(Ch(s, i)) THEN DigitRunEnd(s, i + 1) ELSE i

\* the index after the longest run of whitespace (\s*) that starts at i
RECURSIVE SpaceRunEnd(_, _)
SpaceRunEnd(s, i) ==
    IF i <= Len(s) /\ IsSpace(Ch(s, i)) THEN SpaceRunEnd(s, i + 1) ELSE i

\* str.strip()
\* the index before the longest run of whitespace that ends at i
RECURSIVE SpaceRunStart(_, _)
SpaceRunStart(s, i) ==
    IF i >= 1 /\ IsSpace(Ch(s, i)) THEN SpaceRunStart(s, i - 1) ELSE i

Strip(s) ==
    LET first == SpaceRunEnd(s, 1)
        last  == SpaceRunStart(s, Len(s))
    IN  IF first > last THEN "" ELSE SubSeq(s, first, last)

(***************************************************************************)
(* The line shapes merge_continuation_lines and parse_card_line test       *)
(***************************************************************************)

\* a slip: the order-number banner is not taken for a header
IsPageHeaderTitleOnly(line) == StartsWith(line, "Quantity Description")

\* line.startswith("Quantity Description") or line.startswith("OrderNumber:")
IsPageHeader(line) ==
    StartsWith(line, "Quantity Description") \/ StartsWith(line, "OrderNumber:")

\* re.match(r'^\d+\s+Total\s+\$', line)
IsTotalLine(line) ==
    LET d == DigitRunEnd(line, 1)
        w == SpaceRunEnd(line, d)
        v == SpaceRunEnd(line, w + 5)
    IN  /\ d > 1
        /\ w > d
        /\ StartsWithAt(line, w, "Total")
        /\ v > w + 5
        /\ StartsWithAt(line, v, "$")

\* re.match(r'^\d+\s+Magic-', line)
IsEntryStart(line) ==
    LET d == DigitRunEnd(line, 1)
        w == SpaceRunEnd(line, d)
    IN  /\ d > 1
        /\ w > d
        /\ StartsWithAt(line, w, "Magic-")

(***************************************************************************)
(* add_spaces_to_card_name                                                 *)
(***************************************************************************)
\* the letters of [a-z]
AsciiLower == {"a", "b", "c", "d", "e", "f", "g", "h", "i", "j", "k", "l", "m",
               "n", "o", "p", "q", "r", "s", "t", "u", "v", "w", "x", "y", "z"}

\* the characters str.islower() holds for
LowerCase ==
    AsciiLower \cup
    {"ª", "µ", "º", "ß", "à", "á", "â", "ã", "ä", "å",
     "æ", "ç", "è", "é", "ê", "ë", "ì", "í", "î", "ï",
     "ð", "ñ", "ò", "ó", "ô", "õ", "ö", "ø", "ù", "ú",
     "û", "ü", "ý", "þ", "ÿ"}

IsLower(c) == c \in LowerCase

\* the lower-case letter of each upper-case one
LowerOf ==
    [c \in UpperCase |->
        CASE c = "A" -> "a" [] c = "B" -> "b" [] c = "C" -> "c" [] c = "D" -> "d"
          [] c = "E" -> "e" [] c = "F" -> "f" [] c = "G" -> "g" [] c = "H" -> "h"
          [] c = "I" -> "i" [] c = "J" -> "j" [] c = "K" -> "k" [] c = "L" -> "l"
          [] c = "M" -> "m" [] c = "N" -> "n" [] c = "O" -> "o" [] c = "P" -> "p"
          [] c = "Q" -> "q" [] c = "R" -> "r" [] c = "S" -> "s" [] c = "T" -> "t"
          [] c = "U" -> "u" [] c = "V" -> "v" [] c = "W" -> "w" [] c = "X" -> "x"
          [] c = "Y" -> "y" [] c = "Z" -> "z" [] c = "À" -> "à" [] c = "Á" -> "á"
          [] c = "Â" -> "â" [] c = "Ã" -> "ã" [] c = "Ä" -> "ä" [] c = "Å" -> "å"
          [] c = "Æ" -> "æ" [] c = "Ç" -> "ç" [] c = "È" -> "è" [] c = "É" -> "é"
          [] c = "Ê" -> "ê" [] c = "Ë" -> "ë" [] c = "Ì" -> "ì" [] c = "Í" -> "í"
          [] c = "Î" -> "î" [] c = "Ï" -> "ï" [] c = "Ð" -> "ð" [] c = "Ñ" -> "ñ"
          [] c = "Ò" -> "ò" [] c = "Ó" -> "ó" [] c = "Ô" -> "ô" [] c = "Õ" -> "õ"
          [] c = "Ö" -> "ö" [] c = "Ø" -> "ø" [] c = "Ù" -> "ù" [] c = "Ú" -> "ú"
          [] c = "Û" -> "û" [] c = "Ü" -> "ü" [] c = "Ý" -> "ý" [] c = "Þ" -> "þ"]

\* str.lower() of one character
ToLower(c) == IF IsUpper(c) THEN LowerOf[c] ELSE c

\* s.lower(); also the text the patterns compiled with re.IGNORECASE are
\* matched on, their letters being of [a-z]
RECURSIVE LowerStr(_)
LowerStr(s) ==
    IF Len(s) = 0 THEN ""
    ELSE IF Len(s) = 1 THEN ToLower(s)
    ELSE LowerStr(SubSeq(s, 1, Len(s) \div 2))
            \o LowerStr(SubSeq(s, Len(s) \div 2 + 1, Len(s)))

\* \w at index i of s: a letter, a digit, another numeral or "_"; an index
\* off the string is no word character
IsWordAt(s, i) ==
    /\ i >= 1
    /\ i <= Len(s)
    /\ Ch(s, i) \in UpperCase \cup LowerCase \cup Digits
                    \cup {"_", "²", "³", "¹", "¼", "½", "¾"}

\* \b in front of index i of s
WordBoundaryAt(s, i) == IsWordAt(s, i - 1) # IsWordAt(s, i)

\* the while loop: a blank goes in front of an upper-case letter that follows
\* a lower-case one, unless the letter before that is a hyphen
RECURSIVE SplitCamelCase(_, _)
SplitCamelCase(name, i) ==
    LET breaks == {j \in i..Len(name) :
                      /\ j > 1
                      /\ IsLower(Ch(name, j - 1))
                      /\ IsUpper(Ch(name, j))
                      /\ Ch(name, j - 1) # "'"
                      /\ (j < 3 \/ Ch(name, j - 2) # "-")}
    IN  IF breaks = {} THEN From(name, i)
        ELSE Between(name, i, SetMin(breaks) - 1) \o " " \o Ch(name, SetMin(breaks))
                \o SplitCamelCase(name, SetMin(breaks) + 1)

\* re.sub(r',([^\s])', r', \1', name), scanning from index i: the scan goes
\* from comma to comma
RECURSIVE SpaceAfterComma(_, _)
SpaceAfterComma(s, i) ==
    LET j == FindFrom(s, ",", i)
    IN  IF j = 0 THEN From(s, i)
        ELSE IF j + 1 <= Len(s) /\ ~IsSpace(Ch(s, j + 1))
        THEN Between(s, i, j - 1) \o ", " \o Ch(s, j + 1) \o SpaceAfterComma(s, j + 2)
        ELSE Between(s, i, j) \o SpaceAfterComma(s, j + 1)

\* re.sub(r':([A-Za-z])', r': \1', name), scanning from index i
RECURSIVE SpaceAfterColon(_, _)
SpaceAfterColon(s, i) ==
    LET j == FindFrom(s, ":", i)
    IN  IF j = 0 THEN From(s, i)
        ELSE IF j + 1 <= Len(s) /\ Ch(s, j + 1) \in AsciiUpper \cup AsciiLower
        THEN Between(s, i, j - 1) \o ": " \o Ch(s, j + 1) \o SpaceAfterColon(s, j + 2)
        ELSE Between(s, i, j) \o SpaceAfterColon(s, j + 1)

\* the word endings of the pattern in front of "of"
OfEndings ==
    {"ion", "ter", "ler", "ant", "ent", "int", "ard", "ack", "ock", "uck",
     "ime", "ame", "ome", "ple", "tle", "nce", "ise", "ose", "use", "ine",
     "one", "ure", "ire", "are", "ore", "ide", "ade", "ude", "ive", "ave",
     "ove", "all", "ell", "ill", "ull", "ath", "eth", "ith", "oth", "uth",
     "lic", "ric", "sic", "tic", "nic", "pic"}

\* the word endings of the pattern in front of "to"
ToEndings == {"ack", "ome", "urn"}

\* re.sub(r'(e1|e2|...)w', r'\1 w', name, flags=re.IGNORECASE) for a set of
\* three-letter endings and the word w, scanning from index i; low is the
\* lower-case form of s, on which the case-blind pattern is matched.  A
\* match that starts at or after i has its w at or after i + 3: the scan
\* goes from one w to the next
RECURSIVE SplitAfterEnding(_, _, _, _, _)
SplitAfterEnding(s, low, i, endings, w) ==
    LET j == FindFrom(low, w, i + 3)
    IN  IF j = 0 THEN From(s, i)
        ELSE IF SubSeq(low, j - 3, j - 1) \in endings
        THEN Between(s, i, j - 1) \o " " \o w
                \o SplitAfterEnding(s, low, j + Len(w), endings, w)
        ELSE Between(s, i, j - 3) \o SplitAfterEnding(s, low, j - 2, endings, w)

\* re.sub(r'([^o])sof', r'\1s of', name, flags=re.IGNORECASE), from index i:
\* the scan goes from one "sof" to the next
RECURSIVE SplitPluralOf(_, _, _)
SplitPluralOf(s, low, i) ==
    LET j == FindFrom(low, "sof", i + 1)
    IN  IF j = 0 THEN From(s, i)
        ELSE IF Ch(low, j - 1) # "o"
        THEN Between(s, i, j - 1) \o "s of" \o SplitPluralOf(s, low, j + 3)
        ELSE Between(s, i, j - 1) \o SplitPluralOf(s, low, j)

\* the length of the match of \bw ?the\b at index i of s, 0 when there is none
WordTheLen(s, low, i, w) ==
    IF ~(StartsWithAt(low, i, w) /\ WordBoundaryAt(s, i)) THEN 0
    ELSE LET j == i + Len(w)
         IN  IF /\ StartsWithAt(low, j, " the")
                /\ WordBoundaryAt(s, j + 4)
             THEN Len(w) + 4
             ELSE IF StartsWithAt(low, j, "the") /\ WordBoundaryAt(s, j + 3)
             THEN Len(w) + 3
             ELSE 0

\* re.sub(r'\bw ?the\b', 'w the', name, flags=re.IGNORECASE), from index i:
\* the scan goes from one w to the next
RECURSIVE SplitWordThe(_, _, _, _)
SplitWordThe(s, low, i, w) ==
    LET j == FindFrom(low, w, i)
        n == WordTheLen(s, low, j, w)
    IN  IF j = 0 THEN From(s, i)
        ELSE IF n > 0 THEN Between(s, i, j - 1) \o w \o " the" \o SplitWordThe(s, low, j + n, w)
        ELSE Between(s, i, j) \o SplitWordThe(s, low, j + 1, w)

\* the eight substitutions "of the" ... "and the", in the order of the code
TheWords == <<"of", "to", "at", "in", "for", "from", "on", "and">>

\* re.sub(r'\bthe([A-Z])', r'the \1', name), scanning from index i: the
\* scan goes from one "the" to the next
RECURSIVE SplitTheCapital(_, _)
SplitTheCapital(s, i) ==
    LET j == FindFrom(s, "the", i)
    IN  IF j = 0 THEN From(s, i)
        ELSE IF /\ WordBoundaryAt(s, j)
                /\ j + 3 <= Len(s)
                /\ Ch(s, j + 3) \in AsciiUpper
        THEN Between(s, i, j - 1) \o "the " \o Ch(s, j + 3) \o SplitTheCapital(s, j + 4)
        ELSE Between(s, i, j) \o SplitTheCapital(s, j + 1)

\* re.sub(r'\s+', ' ', name), scanning from index i
RECURSIVE CollapseSpaces(_, _)
CollapseSpaces(s, i) ==
    LET blanks == {j \in i..Len(s) : IsSpace(Ch(s, j))}
    IN  IF blanks = {} THEN From(s, i)
        ELSE Between(s, i, SetMin(blanks) - 1) \o " "
                \o CollapseSpaces(s, SpaceRunEnd(s, SetMin(blanks)))

\* the substitutions of add_spaces_to_card_name, numbered in the order of the
\* code: the camel-case loop, the re.sub calls, and the final strip
NamePassCount == 9 + Len(TheWords)

NamePass(s, k) ==
    CASE k = 1 -> SplitCamelCase(s, 1)
      [] k = 2 -> SpaceAfterComma(s, 1)
      [] k = 3 -> SpaceAfterColon(s, 1)
      [] k = 4 -> SplitAfterEnding(s, LowerStr(s), 1, OfEndings, "of")
      [] k = 5 -> SplitPluralOf(s, LowerStr(s), 1)
      [] k = 6 -> SplitAfterEnding(s, LowerStr(s), 1, ToEndings, "to")
      [] k \in 7..(6 + Len(TheWords)) -> SplitWordThe(s, LowerStr(s), 1, TheWords[k - 6])
      [] k = 7 + Len(TheWords) -> SplitTheCapital(s, 1)
      [] k = 8 + Len(TheWords) -> CollapseSpaces(s, 1)
      [] k = 9 + Len(TheWords) -> Strip(s)

\* the passes from number k on, one after the other; an empty name stays empty
RECURSIVE NamePasses(_, _)
NamePasses(s, k) ==
    IF k > NamePassCount \/ s = "" THEN s
    ELSE NamePasses(NamePass(s, k), k + 1)

\* if not name: return name; else the passes in turn
add_spaces_to_card_name(name) == NamePasses(name, 1)

(***************************************************************************)
(* extract_set_and_card                                                    *)
(***************************************************************************)
KNOWN_SET_PREFIXES ==
    << "LorwynEclipsed",
       "Avatar:TheLastAirbender:Eternal-Legal",
       "Avatar:TheLastAirbender",
       "MarvelUniverseEternal-Legal",
       "Marvel'sSpider-Man",
       "EdgeofEternities",
       "Commander:EdgeofEternities",
       "FINALFANTASY",
       "Commander:FINALFANTASY",
       "Tarkir:Dragonstorm",
       "Commander:Tarkir:Dragonstorm",
       "Aetherdrift",
       "Phyrexia:AllWillBeOne",
       "WaroftheSpark",
       "Foundations",
       "CommanderLegends:BattleforBaldur'sGate",
       "Commander:OutlawsofThunderJunction",
       "Commander:StreetsofNewCapenna",
       "Commander2016",
       "ModernHorizons3",
       "RavnicaRemastered",
       "TimeSpiral:Remastered",
       "TheListReprints",
       "MysteryBooster2",
       "SecretLairDropSeries",
       "SecretLairCountdownKit",
       "Urza'sLegacy",
       "FromtheVault:Lore",
       "PromoPack:OutlawsofThunderJunction",
       "PromoPack:MarchoftheMachine",
       "PromoPack:Kamigawa:NeonDynasty",
       "CommanderMasters",
       "Innistrad:MidnightHunt",
       "OutlawsofThunderJunction",
       "MurdersatKarlovManor" >>

\* the place of KNOWN_SET_PREFIXES[i] in the stable sort by decreasing length:
\* behind every longer entry and every earlier entry of the same length
RankByLen(i) ==
    1 + Cardinality({j \in 1..Len(KNOWN_SET_PREFIXES) :
            \/ Len(KNOWN_SET_PREFIXES[j]) > Len(KNOWN_SET_PREFIXES[i])
            \/ /\ Len(KNOWN_SET_PREFIXES[j]) = Len(KNOWN_SET_PREFIXES[i])
               /\ j < i})

\* sorted(KNOWN_SET_PREFIXES, key=len, reverse=True)
sorted_prefixes ==
    [k \in 1..Len(KNOWN_SET_PREFIXES) |->
        KNOWN_SET_PREFIXES[CHOOSE i \in 1..Len(KNOWN_SET_PREFIXES) : RankByLen(i) = k]]

\* description.startswith(prefix + "-")
PrefixMatches(d, prefix) == StartsWith(d, prefix \o "-")

\* for prefix in sorted_prefixes: the index of the first prefix that matches,
\* 0 when the loop ends without a return
KnownPrefixIndex(d) ==
    LET hits == {i \in 1..Len(sorted_prefixes) : PrefixMatches(d, sorted_prefixes[i])}
    IN  IF hits = {} THEN 0 ELSE SetMin(hits)

\* re.search(r'-#\d+', description).start() + 1, 0 when there is no match
NumberAnchor(d) ==
    LET hits == {i \in 1..(Len(d) - 2) :
                    /\ Ch(d, i) = "-"
                    /\ Ch(d, i + 1) = "#"
                    /\ IsDigit(Ch(d, i + 2))}
    IN  IF hits = {} THEN 0 ELSE SetMin(hits)

\* s.split('-')
RECURSIVE SplitHyphen(_)
SplitHyphen(s) ==
    LET h == Find(s, "-")
    IN  IF h = 0 THEN <<s>>
        ELSE <<Before(s, h)>> \o SplitHyphen(From(s, h + 1))

\* '-'.join(parts)
RECURSIVE JoinHyphen(_)
JoinHyphen(parts) ==
    IF parts = <<>> THEN ""
    ELSE IF Len(parts) = 1 THEN parts[1]
    ELSE parts[1] \o "-" \o JoinHyphen(Tail(parts))

SetWords == {"Commander", "Eternal", "Legal", "Remastered", "Promo"}

\* a slip: a part is held back only when it is one of the words, not when it
\* begins with one
LooksLikeCardStartExactWord(part) ==
    /\ part # ""
    /\ IsUpper(Ch(part, 1))
    /\ part \notin SetWords

\* part and part[0].isupper() and not any(part.startswith(x) for x in [...])
LooksLikeCardStart(part) ==
    /\ part # ""
    /\ IsUpper(Ch(part, 1))
    /\ \A x \in SetWords : ~StartsWith(part, x)

\* the for loop over enumerate(parts): the index (from 1) of the part that
\* sets found_card, 0 when none does; j > 0 in the code is k > 1 here
FirstCardPart(parts) ==
    LET hits == {k \in 2..Len(parts) : LooksLikeCardStart(parts[k])}
    IN  IF hits = {} THEN 0 ELSE SetMin(hits)

\* a slip: the anchor and the text after it are left out of the remainder
AnchorSplitNoTail(d) ==
    LET a == NumberAnchor(d)
        parts == SplitHyphen(Before(d, a))
        k == FirstCardPart(parts)
    IN  IF a = 0 \/ Len(parts) < 2 \/ k = 0 THEN <<>>
        ELSE << [set_name  |-> JoinHyphen(SubSeq(parts, 1, k - 1)),
                 remainder |-> JoinHyphen(SubSeq(parts, k, Len(parts)))] >>

\* a slip: with no part that starts the name, the parts before the anchor are
\* returned as the group instead of falling through to the last resort
AnchorSplitAllGroup(d) ==
    LET a == NumberAnchor(d)
        parts == SplitHyphen(Before(d, a))
        k == FirstCardPart(parts)
    IN  IF a = 0 \/ Len(parts) < 2 THEN <<>>
        ELSE IF k = 0
        THEN << [set_name |-> JoinHyphen(parts), remainder |-> From(d, a)] >>
        ELSE << [set_name  |-> JoinHyphen(SubSeq(parts, 1, k - 1)),
                 remainder |-> JoinHyphen(SubSeq(parts, k, Len(parts))) \o From(d, a)] >>

\* the anchor fallback: the returned pair, or <<>> when it falls through
AnchorSplit(d) ==
    LET a == NumberAnchor(d)
        parts == SplitHyphen(Before(d, a))
        k == FirstCardPart(parts)
    IN  IF a = 0 \/ Len(parts) < 2 \/ k = 0 THEN <<>>
        ELSE << [set_name  |-> JoinHyphen(SubSeq(parts, 1, k - 1)),
                 remainder |-> JoinHyphen(SubSeq(parts, k, Len(parts))) \o From(d, a)] >>

\* a slip: first_hyphen >= 0 in place of first_hyphen > 0
FirstHyphenSplitFromZero(d) ==
    LET h == Find(d, "-")
    IN  IF h > 0
        THEN [set_name |-> Before(d, h), remainder |-> From(d, h + 1)]
        ELSE [set_name |-> "Unknown", remainder |-> d]

\* a slip: rfind in place of find, the split falls at the last hyphen
FirstHyphenSplitAtLast(d) ==
    LET hits == {i \in 1..Len(d) : Ch(d, i) = "-"}
        h == IF hits = {} THEN 0 ELSE CHOOSE i \in hits : \A j \in hits : j <= i
    IN  IF h > 1
        THEN [set_name |-> Before(d, h), remainder |-> From(d, h + 1)]
        ELSE [set_name |-> "Unknown", remainder |-> d]

\* last resort: first_hyphen = description.find('-'); if first_hyphen > 0
FirstHyphenSplit(d) ==
    LET h == Find(d, "-")
    IN  IF h > 1
        THEN [set_name |-> Before(d, h), remainder |-> From(d, h + 1)]
        ELSE [set_name |-> "Unknown", remainder |-> d]

\* a slip: the anchor fallback is tried before the table of known prefixes
extract_set_and_card_AnchorFirst(d) ==
    LET p == KnownPrefixIndex(d)
    IN  IF AnchorSplit(d) # <<>> THEN AnchorSplit(d)[1]
        ELSE IF p > 0
        THEN [set_name  |-> sorted_prefixes[p],
              remainder |-> From(d, Len(sorted_prefixes[p]) + 2)]
        ELSE FirstHyphenSplit(d)

extract_set_and_card(d) ==
    LET p == KnownPrefixIndex(d)
    IN  IF p > 0
        THEN [set_name  |-> sorted_prefixes[p],
              remainder |-> From(d, Len(sorted_prefixes[p]) + 2)]
        ELSE IF AnchorSplit(d) # <<>> THEN AnchorSplit(d)[1]
        ELSE FirstHyphenSplit(d)

(***************************************************************************)
(* parse_card_line                                                         *)
(***************************************************************************)
RarityLetters == {"M", "R", "U", "C", "S"}

\* the end (index after) of a match of \$\d+\.?\d* that starts at i,
\* 0 when the pattern does not match at i
PriceEnd(s, i) ==
    IF ~(i + 1 <= Len(s) /\ Ch(s, i) = "$" /\ IsDigit(Ch(s, i + 1))) THEN 0
    ELSE LET d == DigitRunEnd(s, i + 1)
         IN  IF d <= Len(s) /\ Ch(s, d) = "." THEN DigitRunEnd(s, d + 1) ELSE d

\* the start of the leftmost match of \$\d+\.?\d* at or after i, 0 when none
NextPrice(s, i) ==
    LET hits == {j \in i..Len(s) : PriceEnd(s, j) > 0}
    IN  IF hits = {} THEN 0 ELSE SetMin(hits)

\* re.findall(r"\$(\d+\.?\d*)", line), scanning from index i
RECURSIVE FindPrices(_, _)
FindPrices(s, i) ==
    LET j == NextPrice(s, i)
    IN  IF j = 0 THEN <<>>
        ELSE <<SubSeq(s, j + 1, PriceEnd(s, j) - 1)>> \o FindPrices(s, PriceEnd(s, j))

\* re.sub(r'\$\d+\.?\d*', '', line), scanning from index i
RECURSIVE RemovePrices(_, _)
RemovePrices(s, i) ==
    LET j == NextPrice(s, i)
    IN  IF j = 0 THEN From(s, i)
        ELSE (IF j > i THEN SubSeq(s, i, j - 1) ELSE "") \o RemovePrices(s, PriceEnd(s, j))

DigitValue(c) ==
    CASE c = "0" -> 0 [] c = "1" -> 1 [] c = "2" -> 2 [] c = "3" -> 3
      [] c = "4" -> 4 [] c = "5" -> 5 [] c = "6" -> 6 [] c = "7" -> 7
      [] c = "8" -> 8 [] c = "9" -> 9

\* int(s) for a string of digits
RECURSIVE ParseInt(_)
ParseInt(s) ==
    IF s = "" THEN 0
    ELSE 10 * ParseInt(SubSeq(s, 1, Len(s) - 1)) + DigitValue(Ch(s, Len(s)))

RECURSIVE Pow10(_)
Pow10(k) == IF k = 0 THEN 1 ELSE 10 * Pow10(k - 1)

\* the decimal num / 10^exp without trailing zeros in the fraction
RECURSIVE Normalize(_, _)
Normalize(num, exp) ==
    IF exp > 0 /\ num % 10 = 0 THEN Normalize(num \div 10, exp - 1)
    ELSE [num |-> num, exp |-> exp]

\* float(s) for a match of \d+\.?\d*: the value as num / 10^exp
ParseFloat(s) ==
    LET dot == Find(s, ".")
    IN  IF dot = 0 THEN Normalize(ParseInt(s), 0)
        ELSE Normalize(ParseInt(Before(s, dot)) * Pow10(Len(s) - dot)
                         + ParseInt(From(s, dot + 1)),
                       Len(s) - dot)

\* 0.0
ZeroPrice == [num |-> 0, exp |-> 0]

\* a slip: prices[0] in place of prices[-2]
UnitPriceFirst(prices) ==
    IF Len(prices) >= 2 THEN ParseFloat(prices[1]) ELSE [num |-> 0, exp |-> 0]

\* if len(prices) >= 2: price = float(prices[-2]) else: price = 0.0
UnitPrice(prices) ==
    IF Len(prices) >= 2 THEN ParseFloat(prices[Len(prices) - 1]) ELSE ZeroPrice

\* if len(prices) >= 2: total_price = float(prices[-1]) else: total_price = 0.0
TotalPrice(prices) ==
    IF Len(prices) >= 2 THEN ParseFloat(prices[Len(prices)]) ELSE ZeroPrice

\* re.search(r'Magic-(.+)', line_no_prices): group(1).strip(), in a
\* one-element sequence; <<>> when there is no match; "." is any character
\* but the newline
FullDescription(lnp) ==
    LET hits == {j \in 1..(Len(lnp) - 6) :
                    StartsWithAt(lnp, j, "Magic-") /\ Ch(lnp, j + 6) # "\n"}
        m == SetMin(hits)
        n == FindFrom(lnp, "\n", m + 6)
    IN  IF hits = {} THEN <<>>
        ELSE IF n = 0 THEN <<Strip(From(lnp, m + 6))>>
        ELSE <<Strip(Between(lnp, m + 6, n - 1))>>

\* re.search(r'#(\d+)', remainder).start() + 1, 0 when there is no match
NumberMatch(r) ==
    LET hits == {i \in 1..(Len(r) - 1) : Ch(r, i) = "#" /\ IsDigit(Ch(r, i + 1))}
    IN  IF hits = {} THEN 0 ELSE SetMin(hits)

\* number_match.group(1) if number_match else ""
CollectorNumber(r) ==
    LET n == NumberMatch(r)
    IN  IF n = 0 THEN "" ELSE SubSeq(r, n + 1, DigitRunEnd(r, n + 1) - 1)

\* re.search(r'-([MRUCS])-', remainder).start() + 1, 0 when there is no match
RarityBetweenHyphens(r) ==
    LET hits == {i \in 1..(Len(r) - 2) :
                    /\ Ch(r, i) = "-"
                    /\ Ch(r, i + 1) \in RarityLetters
                    /\ Ch(r, i + 2) = "-"}
    IN  IF hits = {} THEN 0 ELSE SetMin(hits)

RarityFollowers == {"Near", "Lightly", "Moderately", "Heavily", "Foil"}

\* (?:$|-?Near|-?Lightly|-?Moderately|-?Heavily|-?Foil) matched at index i
FollowerAt(r, i) ==
    \/ i = Len(r) + 1
    \/ \E w \in RarityFollowers :
          StartsWithAt(r, i, w) \/ StartsWithAt(r, i, "-" \o w)

\* re.search(r'-([MRUCS])(?:$|-?Near|...|-?Foil)', remainder).start() + 1
RarityBeforeCondition(r) ==
    LET hits == {i \in 1..(Len(r) - 1) :
                    /\ Ch(r, i) = "-"
                    /\ Ch(r, i + 1) \in RarityLetters
                    /\ FollowerAt(r, i + 2)}
    IN  IF hits = {} THEN 0 ELSE SetMin(hits)

\* a slip: the hyphen after the letter is not asked for
RarityAfterPriceAnyFollower(line) ==
    LET hits == {i \in 1..Len(line) :
                    LET e == PriceEnd(line, i)
                    IN  /\ e > 0
                        /\ e <= Len(line)
                        /\ Ch(line, e) \in RarityLetters}
    IN  IF hits = {} THEN 0 ELSE SetMin(hits)

\* re.search(r'\$\d+\.?\d*([MRUCS])-', line).start() + 1
RarityAfterPrice(line) ==
    LET hits == {i \in 1..Len(line) :
                    LET e == PriceEnd(line, i)
                    IN  /\ e > 0
                        /\ e + 1 <= Len(line)
                        /\ Ch(line, e) \in RarityLetters
                        /\ Ch(line, e + 1) = "-"}
    IN  IF hits = {} THEN 0 ELSE SetMin(hits)

\* a slip: the search after a price is made first
RarityMatchPriceFirst(r, line) ==
    IF RarityAfterPrice(line) > 0
    THEN [rule |-> "c", start |-> RarityAfterPrice(line),
          letter |-> Ch(line, PriceEnd(line, RarityAfterPrice(line)))]
    ELSE IF RarityBetweenHyphens(r) > 0
    THEN [rule |-> "a", start |-> RarityBetweenHyphens(r),
          letter |-> Ch(r, RarityBetweenHyphens(r) + 1)]
    ELSE IF RarityBeforeCondition(r) > 0
    THEN [rule |-> "b", start |-> RarityBeforeCondition(r),
          letter |-> Ch(r, RarityBeforeCondition(r) + 1)]
    ELSE [rule |-> "none", start |-> 0, letter |-> ""]

\* rarity_match after the three searches: the rule that matched ("a", "b",
\* "c", or "none"), the start of the match and the letter of group(1)
RarityMatch(r, line) ==
    IF RarityBetweenHyphens(r) > 0
    THEN [rule |-> "a", start |-> RarityBetweenHyphens(r),
          letter |-> Ch(r, RarityBetweenHyphens(r) + 1)]
    ELSE IF RarityBeforeCondition(r) > 0
    THEN [rule |-> "b", start |-> RarityBeforeCondition(r),
          letter |-> Ch(r, RarityBeforeCondition(r) + 1)]
    ELSE IF RarityAfterPrice(line) > 0
    THEN [rule |-> "c", start |-> RarityAfterPrice(line),
          letter |-> Ch(line, PriceEnd(line, RarityAfterPrice(line)))]
    ELSE [rule |-> "none", start |-> 0, letter |-> ""]

\* rarity = rarity_match.group(1) if rarity_match else "R"
Rarity(r, line) ==
    IF RarityMatch(r, line).rule = "none" THEN "R" ELSE RarityMatch(r, line).letter

\* a slip: the chain is walked from the worst condition to the best
ConditionHeavilyFirst(line) ==
    IF Contains(line, "HeavilyPlayed") \/ Contains(line, "Heavily Played")
    THEN "Heavily Played"
    ELSE IF Contains(line, "ModeratelyPlayed") \/ Contains(line, "Moderately Played")
    THEN "Moderately Played"
    ELSE IF Contains(line, "LightlyPlayed") \/ Contains(line, "Lightly Played")
    THEN "Lightly Played"
    ELSE "Near Mint"

\* the if / elif chain over "LightlyPlayed", "ModeratelyPlayed", "HeavilyPlayed"
Condition(line) ==
    IF Contains(line, "LightlyPlayed") \/ Contains(line, "Lightly Played")
    THEN "Lightly Played"
    ELSE IF Contains(line, "ModeratelyPlayed") \/ Contains(line, "Moderately Played")
    THEN "Moderately Played"
    ELSE IF Contains(line, "HeavilyPlayed") \/ Contains(line, "Heavily Played")
    THEN "Heavily Played"
    ELSE "Near Mint"

\* [-\s]
IsHyphenOrSpace(c) == c = "-" \/ IsSpace(c)

\* s.endswith(w)
EndsWith(s, w) == Len(w) <= Len(s) /\ SubSeq(s, Len(s) - Len(w) + 1, Len(s)) = w

\* re.search(r'[-\s]W[-\s]|W$', line) for a language name W
LanguageNameFound(line, w) ==
    \/ \E i \in 1..(Len(line) - Len(w) - 1) :
          /\ IsHyphenOrSpace(Ch(line, i))
          /\ StartsWithAt(line, i + 1, w)
          /\ IsHyphenOrSpace(Ch(line, i + 1 + Len(w)))
    \/ EndsWith(line, w)

\* re.search(r'A|B', line) for the two spellings of a Chinese script
LanguageEitherFound(line, a, b) == Contains(line, a) \/ Contains(line, b)

\* language_patterns: the pattern of each row, as the words it looks for, and
\* the language the row sets
language_patterns ==
    << [words |-> <<"Japanese">>,   lang_name |-> "Japanese"],
       [words |-> <<"German">>,     lang_name |-> "German"],
       [words |-> <<"French">>,     lang_name |-> "French"],
       [words |-> <<"Italian">>,    lang_name |-> "Italian"],
       [words |-> <<"Spanish">>,    lang_name |-> "Spanish"],
       [words |-> <<"Portuguese">>, lang_name |-> "Portuguese"],
       [words |-> <<"Russian">>,    lang_name |-> "Russian"],
       [words |-> <<"Korean">>,     lang_name |-> "Korean"],
       [words |-> <<"ChineseSimplified", "SimplifiedChinese">>,
        lang_name |-> "Chinese (Simplified)"],
       [words |-> <<"ChineseTraditional", "TraditionalChinese">>,
        lang_name |-> "Chinese (Traditional)"],
       [words |-> <<"Phyrexian">>,  lang_name |-> "Phyrexian"] >>

\* re.search(pattern, line) for row k of language_patterns
LanguagePatternFound(line, k) ==
    LET words == language_patterns[k].words
    IN  IF Len(words) = 1 THEN LanguageNameFound(line, words[1])
        ELSE LanguageEitherFound(line, words[1], words[2])

\* for pattern, lang_name in language_patterns: the language of the first row
\* whose pattern is found, in a one-element sequence; <<>> for None
Language(line) ==
    LET hits == {k \in 1..Len(language_patterns) : LanguagePatternFound(line, k)}
    IN  IF hits = {} THEN <<>> ELSE <<language_patterns[SetMin(hits)].lang_name>>

\* a slip: the keyword is looked for in the remainder only
IsFoilInRemainder(line) ==
    LET desc == FullDescription(RemovePrices(line, 1))
    IN  desc # <<>> /\ Contains(extract_set_and_card(desc[1]).remainder, "Foil")

\* is_foil = "Foil" in line
IsFoil(line) == Contains(line, "Foil")

\* str.rstrip('-')
RECURSIVE RStripHyphen(_)
RStripHyphen(s) ==
    IF s # "" /\ Ch(s, Len(s)) = "-" THEN RStripHyphen(SubSeq(s, 1, Len(s) - 1)) ELSE s

\* s[:k] for k >= 0: the slice stops at the end of s
Prefix(s, k) == IF k >= Len(s) THEN s ELSE SubSeq(s, 1, k)

\* card_name_part: the text before the collector number, else before the
\* rarity match (whose start is taken in the string it was found in and
\* applied to the remainder), else the first hyphen-separated token
CardNamePart(r, line) ==
    IF NumberMatch(r) > 0
    THEN RStripHyphen(Before(r, Find(r, "#" \o CollectorNumber(r))))
    ELSE IF RarityMatch(r, line).rule # "none"
    THEN RStripHyphen(Prefix(r, RarityMatch(r, line).start - 1))
    ELSE SplitHyphen(r)[1]

\* re.search(r'\(([^)]+)\)', card_name_part): <<start, end>> of the match
\* (the parentheses), <<>> when there is none
VariantMatch(part) ==
    LET hits == {i \in 1..Len(part) :
                    /\ Ch(part, i) = "("
                    /\ Find(From(part, i + 1), ")") > 1}
    IN  IF hits = {} THEN <<>>
        ELSE <<SetMin(hits), SetMin(hits) + Find(From(part, SetMin(hits) + 1), ")")>>

\* variant = add_spaces_to_card_name(variant_match.group(1)), or None
Variant(part) ==
    LET m == VariantMatch(part)
    IN  IF m = <<>> THEN <<>>
        ELSE <<add_spaces_to_card_name(SubSeq(part, m[1] + 1, m[2] - 1))>>

\* card_name: the part in front of the variant, stripped, or the whole part;
\* then add_spaces_to_card_name
CardName(part) ==
    LET m == VariantMatch(part)
    IN  add_spaces_to_card_name(IF m = <<>> THEN part ELSE Strip(Before(part, m[1])))

\* s.replace(old, new), scanning from index i
RECURSIVE ReplaceAll(_, _, _, _)
ReplaceAll(s, i, old, new) ==
    LET j == FindFrom(s, old, i)
    IN  IF j = 0 THEN From(s, i)
        ELSE Between(s, i, j - 1) \o new \o ReplaceAll(s, j + Len(old), old, new)

\* the fixed replacements made on the display form of the set name
SetNameFixes ==
    << <<"FINALFANTASY", "FINAL FANTASY">>,
       <<"Phyrexia:All Will Be One", "Phyrexia: All Will Be One">>,
       <<"Avatar:The Last Airbender", "Avatar: The Last Airbender">>,
       <<"Tarkir:Dragonstorm", "Tarkir: Dragonstorm">>,
       <<"Commander:", "Commander: ">>,
       <<"Promo Pack:", "Promo Pack: ">>,
       <<"From the Vault:", "From the Vault: ">> >>

RECURSIVE ApplySetNameFixes(_, _)
ApplySetNameFixes(s, k) ==
    IF k > Len(SetNameFixes) \/ Len(s) = 0 THEN s
    ELSE ApplySetNameFixes(ReplaceAll(s, 1, SetNameFixes[k][1], SetNameFixes[k][2]), k + 1)

\* set_name_display
SetNameDisplay(set_name) ==
    CollapseSpaces(ApplySetNameFixes(add_spaces_to_card_name(set_name), 1), 1)

\* the Card built from the stripped line and its description; set_raw,
\* remainder and card_name_part are the locals set_name, remainder and
\* card_name_part of the code
BuildCard(line, desc) ==
    LET sc == extract_set_and_card(desc)
        prices == FindPrices(line, 1)
        part == CardNamePart(sc.remainder, line)
    IN  [quantity         |-> ParseInt(SubSeq(line, 1, DigitRunEnd(line, 1) - 1)),
         set_raw          |-> sc.set_name,
         remainder        |-> sc.remainder,
         set_name         |-> SetNameDisplay(sc.set_name),
         card_name_part   |-> part,
         card_name        |-> CardName(part),
         variant          |-> Variant(part),
         color            |-> "Colorless",
         image_url        |-> <<>>,
         collector_number |-> CollectorNumber(sc.remainder),
         rarity           |-> Rarity(sc.remainder, line),
         condition        |-> Condition(line),
         is_foil          |-> IsFoil(line),
         language         |-> Language(line),
         price            |-> UnitPrice(prices),
         total_price      |-> TotalPrice(prices)]

\* a slip: the test for the header words is left out
parse_card_line_NoHeaderTest(raw) ==
    LET line == Strip(raw)
        desc == FullDescription(RemovePrices(line, 1))
    IN  IF ~IsEntryStart(line) THEN <<>>
        ELSE IF desc = <<>> THEN <<>>
        ELSE <<BuildCard(line, desc[1])>>

\* parse_card_line(line): <<card>>, or <<>> for None
parse_card_line(raw) ==
    LET line == Strip(raw)
        desc == FullDescription(RemovePrices(line, 1))
    IN  IF ~IsEntryStart(line) THEN <<>>
        ELSE IF Contains(line, "Quantity") \/ Contains(line, "Description") THEN <<>>
        ELSE IF desc = <<>> THEN <<>>
        ELSE <<BuildCard(line, desc[1])>>

(***************************************************************************)
(* merge_continuation_lines                                                *)
(***************************************************************************)
\* a slip: the open entry is dropped instead of emitted
FlushMergedLost(m, c) == m

\* if current: merged.append(current)
FlushMerged(m, c) == IF c # "" THEN Append(m, c) ELSE m

\* a slip: a plain else in place of elif current
HasOpenEntryAlways(c) == TRUE

\* elif current:
HasOpenEntry(c) == c # ""

\* a slip: the wrapped text is joined with a blank
ExtendCurrentSpaced(c, line) == c \o " " \o line

\* current += line
ExtendCurrent(c, line) == c \o line

\* The lines a document may hold: blank, the two header shapes, the total
\* line, entry starts (one with surrounding blanks, one that parse_card_line
\* refuses) and wrapped remainders.
SlipLines ==
    { " \r",
      "Quantity Description Price",
      "OrderNumber:A1",
      "12\fTotal $5.25",
      "1 Magic-Foundations-Bolt-#7-R-$1 $1",
      " 2\fMagic-Sol",
      "Ring-#9-M- $2 $4\r",
      "3 Magic-QuantityX" }

InitMerge ==
    /\ pc = "merge"
    /\ lines \in UNION {[1..n -> SlipLines] : n \in 0..MaxLines}
    /\ pos = 0
    /\ merged = <<>>
    /\ current = ""
    /\ ppos = 0
    /\ cards = <<>>
    /\ warnings = <<>>
    /\ description = ""
    /\ split = <<>>
    /\ pline = ""
    /\ pcard = <<>>
    /\ raw_name = ""
    /\ spaced = ""
    /\ respaced = ""
    /\ EnrichIdle
    /\ SetsIdle

\* for line in lines: line = line.strip()
InLoop == pc = "merge" /\ pos < Len(lines)

CurLine == Strip(lines[pos + 1])

\* if not line: continue
SkipBlank ==
    /\ InLoop
    /\ CurLine = ""
    /\ pos' = pos + 1
    /\ UNCHANGED <<pc, lines, merged, current, slipVars, splitVars, parseVars, nameVars, enrichVars, setVars>>

\* if line.startswith("Quantity Description") or ...: flush; continue
FlushHeader ==
    /\ InLoop
    /\ CurLine # ""
    /\ IsPageHeader(CurLine)
    /\ merged' = FlushMerged(merged, current)
    /\ current' = ""
    /\ pos' = pos + 1
    /\ UNCHANGED <<pc, lines, slipVars, splitVars, parseVars, nameVars, enrichVars, setVars>>

\* if re.match(r'^\d+\s+Total\s+\$', line): flush; continue
FlushTotal ==
    /\ InLoop
    /\ CurLine # ""
    /\ ~IsPageHeader(CurLine)
    /\ IsTotalLine(CurLine)
    /\ merged' = FlushMerged(merged, current)
    /\ current' = ""
    /\ pos' = pos + 1
    /\ UNCHANGED <<pc, lines, slipVars, splitVars, parseVars, nameVars, enrichVars, setVars>>

\* if re.match(r'^\d+\s+Magic-', line): flush; current = line
StartEntry ==
    /\ InLoop
    /\ CurLine # ""
    /\ ~IsPageHeader(CurLine)
    /\ ~IsTotalLine(CurLine)
    /\ IsEntryStart(CurLine)
    /\ merged' = FlushMerged(merged, current)
    /\ current' = CurLine
    /\ pos' = pos + 1
    /\ UNCHANGED <<pc, lines, slipVars, splitVars, parseVars, nameVars, enrichVars, setVars>>

\* elif current: current += line
AppendContinuation ==
    /\ InLoop
    /\ CurLine # ""
    /\ ~IsPageHeader(CurLine)
    /\ ~IsTotalLine(CurLine)
    /\ ~IsEntryStart(CurLine)
    /\ HasOpenEntry(current)
    /\ current' = ExtendCurrent(current, CurLine)
    /\ pos' = pos + 1
    /\ UNCHANGED <<pc, lines, merged, slipVars, splitVars, parseVars, nameVars, enrichVars, setVars>>

\* else: skip lines before first card entry
DropLine ==
    /\ InLoop
    /\ CurLine # ""
    /\ ~IsPageHeader(CurLine)
    /\ ~IsTotalLine(CurLine)
    /\ ~IsEntryStart(CurLine)
    /\ ~HasOpenEntry(current)
    /\ pos' = pos + 1
    /\ UNCHANGED <<pc, lines, merged, current, slipVars, splitVars, parseVars, nameVars, enrichVars, setVars>>

\* after the loop: if current: merged.append(current); return merged
FinalFlush ==
    /\ pc = "merge"
    /\ pos = Len(lines)
    /\ merged' = FlushMerged(merged, current)
    /\ pc' = "parse"
    /\ UNCHANGED <<lines, pos, current, slipVars, splitVars, parseVars, nameVars, enrichVars, setVars>>

(***************************************************************************)
(* parse_packing_slip: the loop over merged_lines                          *)
(***************************************************************************)
InParseLoop == pc = "parse" /\ ppos < Len(merged)

\* a slip: the new card goes to the front of the list
PrependCard(cs, card) == <<card>> \o cs

\* cards.append(card)
AppendCard(cs, card) == Append(cs, card)

\* card = parse_card_line(line); if card: cards.append(card)
RecordCard ==
    /\ InParseLoop
    /\ parse_card_line(merged[ppos + 1]) # <<>>
    /\ cards' = AppendCard(cards, parse_card_line(merged[ppos + 1])[1])
    /\ ppos' = ppos + 1
    /\ UNCHANGED <<pc, warnings, mergeVars, splitVars, parseVars, nameVars, enrichVars, setVars>>

\* else: if "Magic-" in line: print("Warning: Could not parse line ...")
WarnUnparsed ==
    /\ InParseLoop
    /\ parse_card_line(merged[ppos + 1]) = <<>>
    /\ warnings' = IF Contains(merged[ppos + 1], "Magic-")
                   THEN Append(warnings, merged[ppos + 1])
                   ELSE warnings
    /\ ppos' = ppos + 1
    /\ UNCHANGED <<pc, cards, mergeVars, splitVars, parseVars, nameVars, enrichVars, setVars>>

\* return cards
ReturnCards ==
    /\ pc = "parse"
    /\ ppos = Len(merged)
    /\ pc' = "done"
    /\ UNCHANGED <<ppos, cards, warnings, mergeVars, splitVars, parseVars, nameVars, enrichVars, setVars>>

Init == InitMerge

Next ==
    \/ SkipBlank
    \/ FlushHeader
    \/ FlushTotal
    \/ StartEntry
    \/ AppendContinuation
    \/ DropLine
    \/ FinalFlush
    \/ RecordCard
    \/ WarnUnparsed
    \/ ReturnCards

Spec == Init /\ [][Next]_vars

(***************************************************************************)
(* fetch_scryfall_sets, get_scryfall_set_code                              *)
(***************************************************************************)
MaxSets == 3
MaxSetCalls == 3

\* a dict is the list of its items, in the order the keys were inserted
EmptyDict == <<>>

\* key in d
DictHas(d, key) == \E i \in 1..Len(d) : d[i][1] = key

\* d[key]
DictGet(d, key) == d[CHOOSE i \in 1..Len(d) : d[i][1] = key][2]

\* d[key] = value: a key the dict holds keeps its place
DictSet(d, key, value) ==
    IF DictHas(d, key)
    THEN [i \in 1..Len(d) |-> IF d[i][1] = key THEN <<key, value>> ELSE d[i]]
    ELSE Append(d, <<key, value>>)

\* d.update(items), from item i on
RECURSIVE DictUpdate(_, _, _)
DictUpdate(d, items, i) ==
    IF i > Len(items) THEN d
    ELSE DictUpdate(DictSet(d, items[i][1], items[i][2]), items, i + 1)

\* the names TCGPlayer uses that Scryfall does not
manual_overrides ==
    << <<"SecretLairDropSeries", "sld">>,
       <<"Secret Lair Drop Series", "sld">>,
       <<"SecretLairCountdownKit", "slc">>,
       <<"Secret Lair Countdown Kit", "slc">>,
       <<"Avatar:TheLastAirbender:Eternal-Legal", "tle">>,
       <<"Avatar: The Last Airbender: Eternal-Legal", "tle">>,
       <<"MarvelUniverseEternal-Legal", "mar">>,
       <<"Marvel Universe Eternal-Legal", "mar">>,
       <<"TheListReprints", "plst">>,
       <<"The List Reprints", "plst">>,
       <<"TimeSpiral:Remastered", "tsr">>,
       <<"Time Spiral: Remastered", "tsr">> >>

\* the set types left out of the mapping
SkippedSetTypes == {"token", "memorabilia", "promo", "alchemy"}

\* the body of the loop over sets_data
AddSet(mapping, set_info) ==
    LET code == set_info.code
        name == set_info.name
        no_spaces == ReplaceAll(name, 1, " ", "")
        colon_no_space == ReplaceAll(name, 1, ": ", ":")
        all_no_spaces == ReplaceAll(ReplaceAll(name, 1, " ", ""), 1, ":", "")
        named == DictSet(DictSet(DictSet(mapping, name, code), no_spaces, code),
                         colon_no_space, code)
    IN  IF code = "" \/ name = "" THEN mapping
        ELSE IF set_info.set_type \in SkippedSetTypes THEN mapping
        ELSE IF DictHas(named, all_no_spaces) THEN named
        ELSE DictSet(named, all_no_spaces, code)

\* for set_info in sets_data, from set i on
RECURSIVE AddSets(_, _, _)
AddSets(mapping, sets_data, i) ==
    IF i > Len(sets_data) THEN mapping
    ELSE AddSets(AddSet(mapping, sets_data[i]), sets_data, i + 1)

\* the mapping built from the set list the request came back with
SetMapping(sets_data) == DictUpdate(AddSets(EmptyDict, sets_data, 1), manual_overrides, 1)

\* a slip: a failed fetch leaves the cache unset
CacheOnFailureUnset == <<>>

\* except Exception: _scryfall_set_cache = {}
CacheOnFailure == <<EmptyDict>>

\* fetch_scryfall_sets(); answer is what the request meets when it is made
fetch_scryfall_sets(answer) ==
    /\ set_calls' = set_calls + 1
    /\ IF scryfall_set_cache # <<>>
       THEN /\ set_returned' = scryfall_set_cache
            /\ UNCHANGED <<scryfall_set_cache, set_requests>>
       ELSE IF answer.failed
       THEN /\ scryfall_set_cache' = CacheOnFailure
            /\ set_requests' = Append(set_requests, "failed")
            /\ set_returned' = <<EmptyDict>>
       ELSE /\ scryfall_set_cache' = <<SetMapping(answer.data)>>
            /\ set_requests' = Append(set_requests, "loaded")
            /\ set_returned' = <<SetMapping(answer.data)>>

\* the three tries of get_scryfall_set_code on the mapping: the name, the
\* name without blanks, the first key that equals the name in lower case
SetCodeIn(mapping, set_name) ==
    LET no_spaces == ReplaceAll(set_name, 1, " ", "")
        lower == LowerStr(set_name)
        alike == {i \in 1..Len(mapping) : LowerStr(mapping[i][1]) = lower}
    IN  IF DictHas(mapping, set_name) THEN <<DictGet(mapping, set_name)>>
        ELSE IF DictHas(mapping, no_spaces) THEN <<DictGet(mapping, no_spaces)>>
        ELSE IF alike # {} THEN <<mapping[SetMin(alike)][2]>>
        ELSE <<>>

\* get_scryfall_set_code(set_name)
get_scryfall_set_code(set_name, answer) ==
    /\ fetch_scryfall_sets(answer)
    /\ set_code' = SetCodeIn(set_returned'[1], set_name)

\* the sets a set list may hold: a core set, its tokens, an entry without
\* code, and two sets whose names differ by a colon
SetInfos ==
    { [code |-> "fdn", name |-> "Foundations", set_type |-> "core"],
      [code |-> "tfdn", name |-> "Foundations Tokens", set_type |-> "token"],
      [code |-> "", name |-> "Eternal", set_type |-> "expansion"],
      [code |-> "rvr", name |-> "Ravnica Remastered", set_type |-> "masters"],
      [code |-> "xrv", name |-> "Ravnica: Remastered", set_type |-> "masters"] }

\* what the request may meet: an exception, or a set list
SetListAnswers ==
    {[failed |-> TRUE, data |-> <<>>]}
        \cup {[failed |-> FALSE, data |-> d] :
                d \in UNION {[1..n -> SetInfos] : n \in 0..MaxSets}}

\* the answers a call may draw: the request is made only while the cache is
\* unset, a later call meets none
RequestAnswers ==
    IF scryfall_set_cache = <<>> THEN SetListAnswers
    ELSE {[failed |-> FALSE, data |-> <<>>]}

\* the set names looked up
SetNames ==
    {"Foundations", "foundations", "Foundations Tokens", "Ravnica Remastered",
     "RavnicaRemastered", "Ravnica:Remastered", "Time Spiral Remastered", "Eternal"}

\* a call of fetch_scryfall_sets
FetchCall ==
    /\ pc = "sets"
    /\ set_calls < MaxSetCalls
    /\ \E answer \in RequestAnswers : fetch_scryfall_sets(answer)
    /\ UNCHANGED <<pc, set_code, mergeVars, slipVars, splitVars, parseVars,
                   nameVars, enrichVars>>

\* a call of get_scryfall_set_code
SetCodeCall ==
    /\ pc = "sets"
    /\ set_calls < MaxSetCalls
    /\ \E set_name \in SetNames, answer \in RequestAnswers :
          get_scryfall_set_code(set_name, answer)
    /\ UNCHANGED <<pc, mergeVars, slipVars, splitVars, parseVars, nameVars, enrichVars>>

InitSets ==
    /\ pc = "sets"
    /\ SetsIdle
    /\ EnrichIdle
    /\ lines = <<>>
    /\ pos = 0
    /\ merged = <<>>
    /\ current = ""
    /\ ppos = 0
    /\ cards = <<>>
    /\ warnings = <<>>
    /\ description = ""
    /\ split = <<>>
    /\ pline = ""
    /\ pcard = <<>>
    /\ raw_name = ""
    /\ spaced = ""
    /\ respaced = ""

NextSets == FetchCall \/ SetCodeCall

SpecSets == InitSets /\ [][NextSets]_vars

(***************************************************************************)
(* fetch_colors_from_scryfall                                              *)
(***************************************************************************)
MaxCards == 3

\* the parsing artifacts get_search_name removes, in the order of the code
SearchNameSuffixes ==
    <<"(Extended", "(Borderless", "(Showcase", "(Retro Frame", "(Foil Etched",
      "(White Border", "(Future Sight">>

\* search_name = re.sub(r'\(X$', '', search_name).strip(), for suffix k on
RECURSIVE StripSearchSuffixes(_, _)
StripSearchSuffixes(n, k) ==
    IF k > Len(SearchNameSuffixes) THEN n
    ELSE StripSearchSuffixes(
            IF EndsWith(n, SearchNameSuffixes[k])
            THEN Strip(Before(n, Len(n) - Len(SearchNameSuffixes[k]) + 1))
            ELSE Strip(n),
            k + 1)

get_search_name(card_name) == StripSearchSuffixes(Strip(card_name), 1)

\* a slip: the image is cached by set alone
ImageCacheKeyBySet(card) == <<card.set_name>>

\* image_cache_key = (card.set_name, card.collector_number)
ImageCacheKey(card) == <<card.set_name, card.collector_number>>

\* color_cache_key = search_name.lower().strip()
ColorCacheKey(card) == Strip(LowerStr(get_search_name(card.card_name)))

\* cache[key] = value
CachePut(cache, key, value) ==
    [k \in (DOMAIN cache) \cup {key} |-> IF k = key THEN value ELSE cache[k]]

\* the answers search_scryfall may come back with: a creature of one color,
\* a land without image, a double-faced card of two colors, and a
\* double-faced card that holds image_uris without a "normal" entry.  The
\* field image_uris is <<>> when the key is absent, else the one-element
\* sequence of its "normal" entry (<<>> when it has none)
ScryfallResponses ==
    { [card_faces |-> <<>>, type_line |-> "Creature", colors |-> <<"R">>,
       image_uris |-> << <<"img-a">> >>],
      [card_faces |-> <<>>, type_line |-> "Basic Land", colors |-> <<>>,
       image_uris |-> <<>>],
      [card_faces |-> <<[type_line |-> "Creature", colors |-> <<"W", "U">>,
                         image_uris |-> << <<"img-b">> >>]>>,
       type_line |-> "", colors |-> <<>>, image_uris |-> <<>>],
      [card_faces |-> <<[type_line |-> "Creature", colors |-> <<"G">>,
                         image_uris |-> << <<"img-c">> >>]>>,
       type_line |-> "", colors |-> <<>>, image_uris |-> << <<>> >>] }

\* color_map.get(colors[0], "Colorless")
ColorMap(c) ==
    CASE c = "W" -> "White" [] c = "U" -> "Blue" [] c = "B" -> "Black"
      [] c = "R" -> "Red" [] c = "G" -> "Green" [] OTHER -> "Colorless"

get_card_color(scryfall_data) ==
    LET front == IF Len(scryfall_data.card_faces) > 0
                 THEN scryfall_data.card_faces[1] ELSE scryfall_data
    IN  IF Contains(front.type_line, "Land") /\ ~Contains(front.type_line, "Creature")
        THEN "Land"
        ELSE IF Len(front.colors) = 0 THEN "Colorless"
        ELSE IF Len(front.colors) > 1 THEN "Multicolor"
        ELSE ColorMap(front.colors[1])

\* the "normal" entry of image_uris when the card holds the key, else that
\* of its front face when the face holds the key, else None
get_card_image_url(scryfall_data) ==
    IF scryfall_data.image_uris # <<>> THEN scryfall_data.image_uris[1]
    ELSE IF /\ Len(scryfall_data.card_faces) > 0
            /\ scryfall_data.card_faces[1].image_uris # <<>>
    THEN scryfall_data.card_faces[1].image_uris[1]
    ELSE <<>>

\* a slip: the card takes the name that was searched for
EnrichedCardRenamed(card, color, image_url) ==
    [card EXCEPT !.color = color, !.image_url = image_url,
                 !.card_name = get_search_name(card.card_name)]

\* card.color = color; card.image_url = image_url
EnrichedCard(card, color, image_url) ==
    [card EXCEPT !.color = color, !.image_url = image_url]

\* for i, card in enumerate(cards)
InEnrichLoop == pc = "enrich" /\ epos < Len(cards)

\* if image_cache_key in image_cache and color_cache_key in color_cache
IsCached(card) ==
    /\ ImageCacheKey(card) \in DOMAIN image_cache
    /\ ColorCacheKey(card) \in DOMAIN color_cache

\* what the set list request of search_scryfall may meet: a failure, or a
\* list that holds the set Foundations
EnrichSetAnswers ==
    { [failed |-> TRUE, data |-> <<>>],
      [failed |-> FALSE,
       data |-> <<[code |-> "fdn", name |-> "Foundations", set_type |-> "core"]>>] }

\* search_scryfall: if set_name and collector_number:
\*     set_code = get_scryfall_set_code(set_name)
SearchSetCode(card) ==
    IF card.set_name # "" /\ card.collector_number # ""
    THEN \E answer \in EnrichSetAnswers : get_scryfall_set_code(card.set_name, answer)
    ELSE UNCHANGED setVars

\* the cached branch: both fields are taken from the caches
EnrichFromCache ==
    /\ InEnrichLoop
    /\ IsCached(cards[epos + 1])
    /\ cards' = [cards EXCEPT ![epos + 1] =
                    EnrichedCard(@, color_cache[ColorCacheKey(@)],
                                 image_cache[ImageCacheKey(@)])]
    /\ epos' = epos + 1
    /\ UNCHANGED <<pc, ppos, warnings, image_cache, color_cache, failed_lookups,
                   lookups, mergeVars, splitVars, parseVars, nameVars, setVars>>

\* the else branch when search_scryfall returns data
EnrichFound ==
    /\ InEnrichLoop
    /\ ~IsCached(cards[epos + 1])
    /\ \E scryfall_data \in ScryfallResponses :
          LET card == cards[epos + 1]
              color == get_card_color(scryfall_data)
              image_url == get_card_image_url(scryfall_data)
          IN  /\ cards' = [cards EXCEPT ![epos + 1] = EnrichedCard(card, color, image_url)]
              /\ color_cache' = CachePut(color_cache, ColorCacheKey(card), color)
              /\ image_cache' = CachePut(image_cache, ImageCacheKey(card), image_url)
    /\ SearchSetCode(cards[epos + 1])
    /\ lookups' = Append(lookups, epos + 1)
    /\ epos' = epos + 1
    /\ UNCHANGED <<pc, ppos, warnings, failed_lookups,
                   mergeVars, splitVars, parseVars, nameVars>>

\* the else branch when search_scryfall returns None
EnrichNotFound ==
    /\ InEnrichLoop
    /\ ~IsCached(cards[epos + 1])
    /\ LET card == cards[epos + 1]
       IN  /\ cards' = [cards EXCEPT ![epos + 1] = EnrichedCard(card, "Colorless", <<>>)]
           /\ failed_lookups' =
                 Append(failed_lookups,
                        card.card_name \o " (searched: "
                            \o get_search_name(card.card_name) \o ")")
           /\ color_cache' = CachePut(color_cache, ColorCacheKey(card), "Colorless")
           /\ image_cache' = CachePut(image_cache, ImageCacheKey(card), <<>>)
    /\ SearchSetCode(cards[epos + 1])
    /\ lookups' = Append(lookups, epos + 1)
    /\ epos' = epos + 1
    /\ UNCHANGED <<pc, ppos, warnings, mergeVars, splitVars, parseVars, nameVars>>

\* return cards
EnrichReturn ==
    /\ pc = "enrich"
    /\ epos = Len(cards)
    /\ pc' = "enriched"
    /\ UNCHANGED <<slipVars, mergeVars, splitVars, parseVars, nameVars, enrichVars, setVars>>

\* the merged entries whose cards are enriched: two printings that share
\* name, set and number, one that shares name and number in another set,
\* the name up to the case of the letters and a variant artifact, one that
\* shares set and number under another name, one that shares name and set
\* under another number
EnrichLines ==
    { "1 Magic-Foundations-Bolt-#7-R-NearMint $1 $1",
      "2 Magic-Foundations-Bolt-#7-R-LightlyPlayedFoil $1 $2",
      "1 Magic-Eternal-bolt(Extended-#7-C $1 $1",
      "3 Magic-Foundations-Sol-#7-M $2 $6",
      "1 Magic-Foundations-Bolt-#12-R $1 $1" }

EnrichCards == {parse_card_line(l)[1] : l \in EnrichLines}

InitEnrich ==
    /\ pc = "enrich"
    /\ cards \in UNION {[1..n -> EnrichCards] : n \in 0..MaxCards}
    /\ EnrichIdle
    /\ SetsIdle
    /\ lines = <<>>
    /\ pos = 0
    /\ merged = <<>>
    /\ current = ""
    /\ ppos = 0
    /\ warnings = <<>>
    /\ description = ""
    /\ split = <<>>
    /\ pline = ""
    /\ pcard = <<>>
    /\ raw_name = ""
    /\ spaced = ""
    /\ respaced = ""

NextEnrich == EnrichFromCache \/ EnrichFound \/ EnrichNotFound \/ EnrichReturn

SpecEnrich == InitEnrich /\ [][NextEnrich]_vars

\* the parsed core of a record: every field but color and image reference
CoreFields(card) ==
    [quantity |-> card.quantity, set_name |-> card.set_name,
     card_name |-> card.card_name, collector_number |-> card.collector_number,
     rarity |-> card.rarity, condition |-> card.condition,
     is_foil |-> card.is_foil, price |-> card.price,
     total_price |-> card.total_price, variant |-> card.variant,
     language |-> card.language]

\* C16: fetch_colors_from_scryfall leaves the parsed core fields of every
\* record unchanged and keeps the number and order of the records; every
\* step of it, whether the lookup succeeds, fails or is answered from the
\* cache, changes at most the color and the image reference of one record.
C16_EnrichStep ==
    pc = "enrich" =>
        /\ Len(cards') = Len(cards)
        /\ \A i \in 1..Len(cards) : CoreFields(cards'[i]) = CoreFields(cards[i])

C16_EnrichKeepsCore == [][C16_EnrichStep]_vars

\* C16 witness: the function returned after a lookup that succeeded and set
\* color and image, and a record that was answered from the cache.
C16_Witness ==
    /\ pc = "enriched"
    /\ Len(cards) = 2
    /\ Len(lookups) = 1
    /\ cards[1].color = "Red"
    /\ cards[1].image_url = <<"img-a">>
    /\ cards[2].color = "Red"
    /\ cards[2].quantity # cards[1].quantity

(***************************************************************************)
(* The merger's contract, stated over the input lines                      *)
(***************************************************************************)

\* t has the shape <digits><whitespace>Magic-...
ShapeEntryStart(t) ==
    \E d \in 1..Len(t) :
        /\ \A i \in 1..d : Ch(t, i) \in Digits
        /\ \E w \in (d + 1)..Len(t) :
              /\ \A i \in (d + 1)..w : Ch(t, i) \in WhiteSpace
              /\ StartsWithAt(t, w + 1, "Magic-")

\* t has the shape <digits><whitespace>Total<whitespace>$...
ShapeTotal(t) ==
    \E d \in 1..Len(t) :
        /\ \A i \in 1..d : Ch(t, i) \in Digits
        /\ \E w \in (d + 1)..Len(t) :
              /\ \A i \in (d + 1)..w : Ch(t, i) \in WhiteSpace
              /\ StartsWithAt(t, w + 1, "Total")
              /\ \E v \in (w + 6)..Len(t) :
                    /\ \A i \in (w + 6)..v : Ch(t, i) \in WhiteSpace
                    /\ StartsWithAt(t, v + 1, "$")

\* t is page noise: a header, an order-number banner or the total line
ShapeNoise(t) ==
    \/ StartsWith(t, "Quantity Description")
    \/ StartsWith(t, "OrderNumber:")
    \/ ShapeTotal(t)

\* the positions of the EntryStart lines and of the PageNoise lines
EntryStarts == {i \in 1..Len(lines) : ShapeEntryStart(Strip(lines[i]))}

NoiseLines == {i \in 1..Len(lines) : ShapeNoise(Strip(lines[i]))}

\* the k-th smallest member of the set S of line positions
Kth(S, k) == CHOOSE i \in S : Cardinality({j \in S : j < i}) = k - 1

\* the last line, up to line n, of the run that line i opens: the run ends
\* before the next line whose position is in the set marks
RunEnd(marks, i, n) ==
    CHOOSE j \in i..n :
        /\ \A k \in (i + 1)..j : k \notin marks
        /\ j = n \/ (j + 1) \in marks

\* the trimmed lines i..j laid end to end
RECURSIVE ConcatLines(_, _)
ConcatLines(i, j) ==
    IF i > j THEN "" ELSE Strip(lines[i]) \o ConcatLines(i + 1, j)

\* the entries the merger holds: those emitted, then the open one
Entries ==
    IF pc = "merge" /\ current # "" THEN Append(merged, current) ELSE merged

\* the largest member, up to n, of the set marks of line positions, 0 if none
LastMark(marks, n) ==
    LET upto == marks \cap 1..n
    IN  IF upto = {} THEN 0 ELSE CHOOSE i \in upto : \A j \in upto : j <= i

\* C1: merge_continuation_lines returns exactly one merged entry per
\* EntryStart line, in the order of the start lines: after every consumed
\* line the entries held (emitted, then open) are as many as the EntryStart
\* lines consumed, the k-th entry begins with the k-th start line, and when
\* the function has returned the list holds one entry per start line of the
\* input (the open entry was flushed, no continuation made an entry).
C1_OneEntryPerStart ==
    LET starts == EntryStarts
    IN  /\ Len(Entries) = Cardinality(starts \cap 1..pos)
        /\ \A k \in 1..Len(Entries) :
              StartsWith(Entries[k], Strip(lines[Kth(starts, k)]))
        /\ pc # "merge" => Len(merged) = Cardinality(starts)

\* C1 witness: the function has returned two or more entries, the last of
\* them flushed at end of input, and a continuation line was folded in.
C1_Witness ==
    /\ pc = "done"
    /\ Len(merged) >= 2
    /\ Len(lines) \notin NoiseLines
    /\ \E k \in 1..Len(merged) : merged[k] # Strip(lines[Kth(EntryStarts, k)])

\* C2: the text of each merged entry is the exact concatenation, without
\* separator, of its (trimmed) EntryStart line and the (trimmed) lines that
\* follow it up to the next EntryStart line, noise line or end of input.
C2_EntryTextIsConcatenation ==
    LET starts == EntryStarts
        marks  == starts \cup NoiseLines
    IN  \A k \in 1..Len(Entries) :
            Entries[k] = ConcatLines(Kth(starts, k), RunEnd(marks, Kth(starts, k), pos))

\* C2 witness: a returned entry made of a start line and a continuation
\* line, followed by another entry.
C2_Witness ==
    /\ pc = "done"
    /\ \E k \in 1..(Len(merged) - 1) :
          /\ RunEnd(EntryStarts \cup NoiseLines, Kth(EntryStarts, k), pos)
                > Kth(EntryStarts, k)
          /\ Len(merged[k]) > Len(Strip(lines[Kth(EntryStarts, k)]))

\* C3: a PageNoise line closes the open entry: consuming it emits the open
\* entry with the text accumulated so far and nothing else, leaves no entry
\* open, and no entry is open again until an EntryStart line is consumed.
C3_NoiseStep ==
    (pc = "merge" /\ pos < Len(lines) /\ ShapeNoise(Strip(lines[pos + 1])))
        => /\ current' = ""
           /\ merged' = IF current # "" THEN Append(merged, current) ELSE merged

C3_OpenOnlyAfterStart ==
    pc = "merge" =>
        LET starts == EntryStarts
        IN  current # "" <=> LastMark(starts \cup NoiseLines, pos) \in starts

C3_NoiseClosesEntry == [][C3_NoiseStep]_vars /\ []C3_OpenOnlyAfterStart

\* C3 witness: a noise line has just closed an entry that a start line and a
\* continuation line had built.
C3_Witness ==
    /\ pc = "merge"
    /\ pos >= 3
    /\ pos \in NoiseLines
    /\ LastMark(EntryStarts \cup NoiseLines, pos - 1) \in EntryStarts
    /\ LastMark(EntryStarts \cup NoiseLines, pos - 1) < pos - 1
    /\ current = ""
    /\ Len(merged) >= 1
    /\ Len(merged[Len(merged)])
          > Len(Strip(lines[LastMark(EntryStarts \cup NoiseLines, pos - 1)]))

\* C4: a line without the EntryStart shape that arrives while no entry is
\* open changes neither the merger state nor the records and diagnostics,
\* and every record or diagnostic returned stems from a merged entry: there
\* are as many of them as EntryStart lines.
C4_OrphanStep ==
    (pc = "merge" /\ pos < Len(lines) /\ current = ""
        /\ ~ShapeEntryStart(Strip(lines[pos + 1])))
        => UNCHANGED <<merged, current, cards, warnings>>

C4_OutputsStemFromEntries ==
    pc = "done" =>
        /\ Len(cards) + Len(warnings) = Cardinality(EntryStarts)
        /\ \A k \in 1..Len(warnings) : \E j \in 1..Len(merged) : warnings[k] = merged[j]

C4_OrphanLineDropped == [][C4_OrphanStep]_vars /\ []C4_OutputsStemFromEntries

\* C4 witness: a continuation-shaped line was consumed after a noise line
\* had flushed an entry, and no entry is open.
C4_Witness ==
    /\ pc = "merge"
    /\ pos >= 3
    /\ Strip(lines[pos]) # ""
    /\ pos \notin EntryStarts \cup NoiseLines
    /\ LastMark(EntryStarts \cup NoiseLines, pos) \in NoiseLines
    /\ Len(merged) >= 1
    /\ current = ""

\* the records of the first k merged entries, in the order of the entries
RECURSIVE RecordsOf(_)
RecordsOf(k) ==
    IF k = 0 THEN <<>>
    ELSE RecordsOf(k - 1) \o parse_card_line(merged[k])

\* the first k merged entries that give no record, in the order of the entries
RECURSIVE UnparsedOf(_)
UnparsedOf(k) ==
    IF k = 0 THEN <<>>
    ELSE UnparsedOf(k - 1)
            \o (IF parse_card_line(merged[k]) = <<>> THEN <<merged[k]>> ELSE <<>>)

\* C15: parse_packing_slip processes every merged entry in order: each entry
\* consumed has given exactly one of a record or an unparsed-line diagnostic,
\* the records (and the diagnostics) are in the order of their entries, and
\* the function returns only when every entry was consumed, so an entry that
\* fails to parse never keeps the later entries from being parsed.
C15_EveryEntryInOrder ==
    pc \in {"parse", "done"} =>
        /\ Len(cards) + Len(warnings) = ppos
        /\ cards = RecordsOf(ppos)
        /\ warnings = UnparsedOf(ppos)
        /\ pc = "done" => ppos = Len(merged)

\* C15 witness: the function returned two records with a diagnostic for an
\* entry that stood in front of the second of them.
C15_Witness ==
    /\ pc = "done"
    /\ Len(cards) = 2
    /\ Len(warnings) = 1
    /\ cards[1] # cards[2]
    /\ \E i, j \in 1..Len(merged) :
          /\ i < j
          /\ warnings[1] = merged[i]
          /\ <<cards[2]>> = parse_card_line(merged[j])

(***************************************************************************)
(* SpecSplit: extract_set_and_card on a drawn description                  *)
(***************************************************************************)
SplitTokens ==
    {"Foundations-", "Marvel'sSpider-", "Man-", "Eternal-", "EternalBolt-",
     "Bolt", "x", "Unknown", "-", "-#7"}

RECURSIVE Flatten(_)
Flatten(toks) == IF toks = <<>> THEN "" ELSE Head(toks) \o Flatten(Tail(toks))

SplitInputs ==
    {Flatten(t) : t \in UNION {[1..n -> SplitTokens] : n \in 0..MaxSplitTokens}}

InitSplit ==
    /\ pc = "split_call"
    /\ description \in SplitInputs
    /\ split = <<>>
    /\ lines = <<>>
    /\ pos = 0
    /\ merged = <<>>
    /\ current = ""
    /\ ppos = 0
    /\ cards = <<>>
    /\ warnings = <<>>
    /\ pline = ""
    /\ pcard = <<>>
    /\ raw_name = ""
    /\ spaced = ""
    /\ respaced = ""
    /\ EnrichIdle
    /\ SetsIdle

SplitCall ==
    /\ pc = "split_call"
    /\ split' = extract_set_and_card(description)
    /\ pc' = "split_ret"
    /\ UNCHANGED <<description, mergeVars, slipVars, parseVars, nameVars, enrichVars, setVars>>

NextSplit == SplitCall

SpecSplit == InitSplit /\ [][NextSplit]_vars

(***************************************************************************)
(* The splitter's contract                                                 *)
(***************************************************************************)

\* the entries of the known-prefix table that d starts with, hyphen included
MatchingPrefixes(d) ==
    {KNOWN_SET_PREFIXES[i] : i \in {j \in 1..Len(KNOWN_SET_PREFIXES) :
                                       StartsWith(d, KNOWN_SET_PREFIXES[j] \o "-")}}

\* d has no hyphen, or starts with one
NoHyphenPastStart(d) ==
    (\A i \in 1..Len(d) : Ch(d, i) # "-") \/ StartsWith(d, "-")

\* C5: extract_set_and_card returns a non-empty group label for every
\* input string.  The code breaks it: a description that starts with a
\* hyphen and takes the anchor fallback comes back with the group "".
C5_GroupNeverEmpty == pc = "split_ret" => split.set_name # ""

\* C6 as stated: with no "-#" in the text and no known prefix at its start
\* the splitter returns "Unknown" and the full input.
C6_UnknownWithoutAnchor ==
    (pc = "split_ret" /\ ~Contains(description, "-#")
        /\ MatchingPrefixes(description) = {})
        => split = [set_name |-> "Unknown", remainder |-> description]

\* C6 amended: with no "-#" in the text, no known prefix at its start, and
\* either no hyphen at all or a hyphen as first character, the splitter
\* returns "Unknown" and the full input.
C6_UnknownWithoutHyphen ==
    (pc = "split_ret" /\ ~Contains(description, "-#")
        /\ MatchingPrefixes(description) = {}
        /\ NoHyphenPastStart(description))
        => split = [set_name |-> "Unknown", remainder |-> description]

\* C6 witness: a text without anchor that starts with a hyphen and holds
\* another one came back whole under the group "Unknown".
C6_Witness ==
    /\ pc = "split_ret"
    /\ ~Contains(description, "-#")
    /\ StartsWith(description, "-")
    /\ Contains(From(description, 2), "-")
    /\ \E i \in 2..Len(description) : Ch(description, i) # "-"
    /\ split = [set_name |-> "Unknown", remainder |-> description]

\* C7: when the text starts with "<prefix>-" for an entry of the table, the
\* group is the longest such entry and the remainder is the text after that
\* prefix's hyphen, whatever the anchor and first-hyphen rules would give.
C7_LongestKnownPrefix ==
    (pc = "split_ret" /\ MatchingPrefixes(description) # {})
        => LET longest == CHOOSE p \in MatchingPrefixes(description) :
                              \A q \in MatchingPrefixes(description) : Len(q) <= Len(p)
           IN  /\ split.set_name = longest
               /\ split.remainder = From(description, Len(longest) + 2)

\* C7 witness: a group name with an inner hyphen was returned whole, from a
\* text that also holds an identifier anchor.
C7_Witness ==
    /\ pc = "split_ret"
    /\ split.set_name = "Marvel'sSpider-Man"
    /\ Contains(split.remainder, "-#7")
    /\ Len(split.remainder) > 3

\* C8 as stated: a group other than "Unknown" gives back the input as
\* group + "-" + remainder, and the group "Unknown" has the input as remainder.
C8_ReconstructsByGroup ==
    pc = "split_ret" =>
        IF split.set_name # "Unknown"
        THEN split.set_name \o "-" \o split.remainder = description
        ELSE split.remainder = description

\* C8 amended: a group other than "Unknown", and any result for a text that
\* itself starts with "Unknown-", gives back the input as
\* group + "-" + remainder; otherwise the group is "Unknown" and the
\* remainder is the input.
C8_ReconstructsBySplit ==
    pc = "split_ret" =>
        IF split.set_name # "Unknown" \/ StartsWith(description, "Unknown-")
        THEN split.set_name \o "-" \o split.remainder = description
        ELSE split.remainder = description

\* C8 witness: the anchor fallback returned a group of two parts and a
\* remainder that carries the anchor.
C8_Witness ==
    /\ pc = "split_ret"
    /\ MatchingPrefixes(description) = {}
    /\ Contains(split.set_name, "-")
    /\ Contains(split.remainder, "-#7")
    /\ split.set_name \o "-" \o split.remainder = description

\* the index of the first "-#<digit>" of d, 0 when there is none
AnchorPos(d) ==
    LET hits == {i \in 1..(Len(d) - 2) : /\ SubSeq(d, i, i + 1) = "-#"
                                         /\ IsDigit(Ch(d, i + 2))}
    IN  IF hits = {} THEN 0 ELSE SetMin(hits)

\* the hyphen-separated part of t that starts at i (i = 1 or after a hyphen)
\* starts with an uppercase letter and with none of the continuation words
PartQualifiesAt(t, i) ==
    /\ i <= Len(t)
    /\ IsUpper(Ch(t, i))
    /\ \A w \in {"Commander", "Eternal", "Legal", "Remastered", "Promo"} :
           ~StartsWithAt(t, i, w)

\* no known prefix starts d, d holds an anchor, and no part after the first
\* of the text before the anchor qualifies as the start of the name
AnchorWithoutNamePart(d) ==
    /\ MatchingPrefixes(d) = {}
    /\ AnchorPos(d) > 0
    /\ \A i \in 1..(AnchorPos(d) - 1) :
           Ch(d, i) = "-" => ~PartQualifiesAt(Before(d, AnchorPos(d)), i + 1)

\* the position of the first hyphen of d, 0 when there is none
FirstHyphenPos(d) ==
    LET hits == {i \in 1..Len(d) : Ch(d, i) = "-"}
    IN  IF hits = {} THEN 0 ELSE SetMin(hits)

\* C17 as stated: in the anchor fallback, when no part before the anchor
\* qualifies as the start of the name, the returned group is the whole text
\* preceding the anchor.
C17_AllBeforeAnchorIsGroup ==
    (pc = "split_ret" /\ AnchorWithoutNamePart(description))
        => split.set_name = Before(description, AnchorPos(description))

\* C17 amended: in the anchor fallback, when no part before the anchor
\* qualifies as the start of the name, the fallback makes no split and the
\* text is split at its first hyphen: the group is the text before that
\* hyphen and the remainder the text after it, or "Unknown" and the whole
\* text when the text starts with a hyphen.
C17_NoNamePartSplitsAtFirstHyphen ==
    (pc = "split_ret" /\ AnchorWithoutNamePart(description))
        => LET h == FirstHyphenPos(description)
           IN  IF h = 1
               THEN split = [set_name |-> "Unknown", remainder |-> description]
               ELSE split = [set_name  |-> Before(description, h),
                             remainder |-> From(description, h + 1)]

\* C17 witness: a text with two parts before the anchor, neither of which
\* starts the name, came back split at its first hyphen, with the second
\* part on the remainder side.
C17_Witness ==
    /\ pc = "split_ret"
    /\ AnchorWithoutNamePart(description)
    /\ FirstHyphenPos(description) > 1
    /\ FirstHyphenPos(description) < AnchorPos(description)
    /\ split.set_name = Before(description, FirstHyphenPos(description))
    /\ split.set_name # Before(description, AnchorPos(description))
    /\ Contains(split.remainder, "-#7")

\* the hyphen-separated part of t that starts at i starts with an uppercase
\* letter and is not, as a whole, one of the continuation words
PartIsNameStartAt(t, i) ==
    /\ i <= Len(t)
    /\ IsUpper(Ch(t, i))
    /\ LET rest == From(t, i)
           e == FirstHyphenPos(rest)
           part == IF e = 0 THEN rest ELSE Before(rest, e)
       IN  part \notin {"Commander", "Eternal", "Legal", "Remastered", "Promo"}

\* the start positions of the hyphen-separated parts of t
PartStarts(t) == {1} \cup {i + 1 : i \in {j \in 1..Len(t) : Ch(t, j) = "-"}}

\* the anchor fallback is entered: no known prefix, an anchor, and at least
\* two parts before the anchor
InAnchorFallback(d) ==
    /\ MatchingPrefixes(d) = {}
    /\ AnchorPos(d) > 0
    /\ FirstHyphenPos(d) < AnchorPos(d)

\* C18 as stated: in the anchor fallback the parts before the anchor go to
\* the group until the first part that starts with an uppercase letter and
\* is not one of the continuation words; that part, all following parts,
\* the anchor and the rest of the text form the remainder.
C18_SplitAtFirstNamePart ==
    (pc = "split_ret" /\ InAnchorFallback(description))
        => LET t == Before(description, AnchorPos(description))
               starts == {i \in PartStarts(t) : PartIsNameStartAt(t, i)}
           IN  starts # {} =>
                   /\ split.set_name = Before(description, SetMin(starts) - 1)
                   /\ split.remainder = From(description, SetMin(starts))

\* C18 amended: in the anchor fallback the first part always goes to the
\* group, and the following parts go to the group until the first one that
\* starts with an uppercase letter and does not begin with one of the
\* continuation words; when there is such a part, it, all following parts,
\* the anchor and the rest of the text form the remainder.
C18_SplitAtFirstNamePartAfterFirst ==
    (pc = "split_ret" /\ InAnchorFallback(description))
        => LET t == Before(description, AnchorPos(description))
               starts == {i \in PartStarts(t) \ {1} : PartQualifiesAt(t, i)}
           IN  starts # {} =>
                   /\ split.set_name = Before(description, SetMin(starts) - 1)
                   /\ split.remainder = From(description, SetMin(starts))

\* C18 witness: a part that begins with a continuation word without being
\* one stayed in the group, and the split fell at a later part.
C18_Witness ==
    /\ pc = "split_ret"
    /\ InAnchorFallback(description)
    /\ split.set_name = "Man-EternalBolt"
    /\ split.remainder = "Bolt-#7"

\* neither the table of known prefixes nor the anchor fallback splits d
NoEarlierSplit(d) ==
    /\ MatchingPrefixes(d) = {}
    /\ (AnchorPos(d) > 0 =>
           \A i \in 1..(AnchorPos(d) - 1) :
               Ch(d, i) = "-" => ~PartQualifiesAt(Before(d, AnchorPos(d)), i + 1))

\* C19 as stated: when neither the known prefixes nor the anchor fallback
\* split the text, it is split at its first hyphen, and "Unknown" with the
\* full text comes back only when the text holds no hyphen at all.
C19_UnknownOnlyWithoutHyphen ==
    (pc = "split_ret" /\ NoEarlierSplit(description))
        => LET h == FirstHyphenPos(description)
           IN  IF h = 0
               THEN split = [set_name |-> "Unknown", remainder |-> description]
               ELSE split = [set_name  |-> Before(description, h),
                             remainder |-> From(description, h + 1)]

\* C19 amended: when neither the known prefixes nor the anchor fallback
\* split the text, it is split at its first hyphen when that hyphen is not
\* the first character, and "Unknown" with the full text comes back when
\* the text holds no hyphen or starts with one.
C19_UnknownWithoutHyphenPastStart ==
    (pc = "split_ret" /\ NoEarlierSplit(description))
        => LET h == FirstHyphenPos(description)
           IN  IF h <= 1
               THEN split = [set_name |-> "Unknown", remainder |-> description]
               ELSE split = [set_name  |-> Before(description, h),
                             remainder |-> From(description, h + 1)]

\* C19 witness: a text that starts with a hyphen and holds an anchor further
\* on fell through both earlier rules and came back whole under "Unknown".
C19_Witness ==
    /\ pc = "split_ret"
    /\ NoEarlierSplit(description)
    /\ FirstHyphenPos(description) = 1
    /\ AnchorPos(description) > 1
    /\ split = [set_name |-> "Unknown", remainder |-> description]

(***************************************************************************)
(* SpecParse: parse_card_line on a drawn merged line                       *)
(***************************************************************************)
ParseHeads ==
    {"1 Magic-Foundations-Bolt", "2 Magic-Sol-#7-C-", "30  Magic-", "Magic-x"}

ParseTokens == {"-", "U", "M", "Near", "Foil", "$1.50", "$2", "$", ".", "5"}

\* the pieces of the texts that carry language names and header words
WordTokens ==
    {"-", " ", "German", "Japanese", "ChineseSimplified", "Description"}

WordHeads == {"1 Magic-Foundations-Bolt", "3 Magic-QuantityX"}

\* the pieces of the texts that carry condition keywords
ConditionTokens ==
    {"-", "Played", "LightlyPlayed", "Lightly Played", "ModeratelyPlayed",
     "Moderately Played", "HeavilyPlayed", "Heavily Played"}

ConditionHeads == {"1 Magic-Foundations-Bolt-#7-R-"}

\* the last set holds whitespace other than the blank
ParseInputs ==
    {h \o Flatten(t) :
        h \in ParseHeads,
        t \in UNION {[1..n -> ParseTokens] : n \in 0..MaxParseTokens}}
    \cup
    {h \o Flatten(t) :
        h \in WordHeads,
        t \in UNION {[1..n -> WordTokens] : n \in 0..MaxParseTokens}}
    \cup
    {h \o Flatten(t) :
        h \in ConditionHeads,
        t \in UNION {[1..n -> ConditionTokens] : n \in 0..MaxParseTokens}}
    \cup
    {"2\rMagic-Foundations-SolRing\f-#9-M-Near\rMint $2\f$4",
     "1 Magic-\rFoundations-Bolt-#7-R-$1 $1",
     "30  Magic-\r$2",
     "1 Magic-Foundations-Bolt-#7\r-German\f-R $1 $1"}

InitParse ==
    /\ pc = "parse_call"
    /\ pline \in ParseInputs
    /\ pcard = <<>>
    /\ lines = <<>>
    /\ pos = 0
    /\ merged = <<>>
    /\ current = ""
    /\ ppos = 0
    /\ cards = <<>>
    /\ warnings = <<>>
    /\ description = ""
    /\ split = <<>>
    /\ raw_name = ""
    /\ spaced = ""
    /\ respaced = ""
    /\ EnrichIdle
    /\ SetsIdle

ParseCall ==
    /\ pc = "parse_call"
    /\ pcard' = parse_card_line(pline)
    /\ pc' = "parse_ret"
    /\ UNCHANGED <<pline, mergeVars, slipVars, splitVars, nameVars, enrichVars, setVars>>

NextParse == ParseCall

SpecParse == InitParse /\ [][NextParse]_vars

(***************************************************************************)
(* SpecName: add_spaces_to_card_name on a drawn name, then on its result   *)
(***************************************************************************)
MaxNameTokens == 3

NameTokens ==
    {"a", "B", ",", ":", " ", "-", "'", "1", "ionOf", "sof", "ackto", "the",
     "ofThe", "FROM", "o"}

\* the last set holds whitespace other than the blank
NameInputs ==
    {Flatten(t) : t \in UNION {[1..n -> NameTokens] : n \in 0..MaxNameTokens}}
        \cup {"a \r b", "\fAb\r", "a,\rb", "ion\fofthe\rB"}

InitName ==
    /\ pc = "name_call"
    /\ raw_name \in NameInputs
    /\ spaced = ""
    /\ respaced = ""
    /\ EnrichIdle
    /\ SetsIdle
    /\ lines = <<>>
    /\ pos = 0
    /\ merged = <<>>
    /\ current = ""
    /\ ppos = 0
    /\ cards = <<>>
    /\ warnings = <<>>
    /\ description = ""
    /\ split = <<>>
    /\ pline = ""
    /\ pcard = <<>>

\* spaced = add_spaces_to_card_name(raw_name)
NameCall ==
    /\ pc = "name_call"
    /\ spaced' = add_spaces_to_card_name(raw_name)
    /\ pc' = "name_ret"
    /\ UNCHANGED <<raw_name, respaced, mergeVars, slipVars, splitVars, parseVars, enrichVars, setVars>>

\* respaced = add_spaces_to_card_name(spaced)
NameCallAgain ==
    /\ pc = "name_ret"
    /\ respaced' = add_spaces_to_card_name(spaced)
    /\ pc' = "name_ret_again"
    /\ UNCHANGED <<raw_name, spaced, mergeVars, slipVars, splitVars, parseVars, enrichVars, setVars>>

NextName == NameCall \/ NameCallAgain

SpecName == InitName /\ [][NextName]_vars

\* C13: add_spaces_to_card_name is idempotent: for every input string its
\* result fed back through it comes out unchanged.  The code breaks it: each
\* substitution is made in one pass over non-overlapping matches, so the
\* result can still hold a place where the same substitution applies.
C13_Idempotent == pc = "name_ret_again" => respaced = spaced

(***************************************************************************)
(* The field extractor's contract                                          *)
(***************************************************************************)

\* u reads <digits>, <digits>. or <digits>.<digits>
ShapeAmount(u) ==
    /\ Len(u) >= 1
    /\ Ch(u, 1) \in Digits
    /\ \A i \in 1..Len(u) : Ch(u, i) \in Digits \cup {"."}
    /\ Cardinality({i \in 1..Len(u) : Ch(u, i) = "."}) <= 1

\* the positions of the "$" that open a "$<number>" token of t
PriceTokens(t) ==
    {i \in 1..(Len(t) - 1) : Ch(t, i) = "$" /\ Ch(t, i + 1) \in Digits}

\* the last character of the "$<number>" token that opens at i: the number
\* reaches as far as it reads as an amount
TokenLast(t, i) ==
    CHOOSE j \in (i + 1)..Len(t) :
        /\ ShapeAmount(SubSeq(t, i + 1, j))
        /\ j = Len(t) \/ ~ShapeAmount(SubSeq(t, i + 1, j + 1))

\* the amount the "$<number>" token that opens at i stands for
TokenAmount(t, i) == ParseFloat(SubSeq(t, i + 1, TokenLast(t, i)))

\* the largest member of the non-empty set S
Largest(S) == CHOOSE i \in S : \A j \in S : j <= i

\* C9: with two or more "$<number>" tokens in the merged text the unit price
\* is the second-to-last token and the line total the last one; with fewer
\* both are 0.0.
C9_PricesAreLastTwoTokens ==
    (pc = "parse_ret" /\ pcard # <<>>) =>
        LET toks == PriceTokens(pline)
        IN  IF Cardinality(toks) >= 2
            THEN /\ pcard[1].total_price = TokenAmount(pline, Largest(toks))
                 /\ pcard[1].price =
                        TokenAmount(pline, Largest(toks \ {Largest(toks)}))
            ELSE /\ pcard[1].price = [num |-> 0, exp |-> 0]
                 /\ pcard[1].total_price = [num |-> 0, exp |-> 0]

\* C9 witness: a record parsed from a text with three price tokens, whose
\* unit price and line total differ.
C9_Witness ==
    /\ pc = "parse_ret"
    /\ pcard # <<>>
    /\ Cardinality(PriceTokens(pline)) = 3
    /\ pcard[1].price # pcard[1].total_price
    /\ pcard[1].price # TokenAmount(pline, CHOOSE i \in PriceTokens(pline) :
                                               \A j \in PriceTokens(pline) : i <= j)

TierLetters == {"M", "R", "U", "C", "S"}

TierKeywords == {"Near", "Lightly", "Moderately", "Heavily", "Foil"}

\* the smallest member of the non-empty set S
Smallest(S) == CHOOSE i \in S : \A j \in S : i <= j

\* rule (a): the positions in r of a tier letter flanked by hyphens
TierFlanked(r) ==
    {i \in 2..(Len(r) - 1) :
        Ch(r, i) \in TierLetters /\ Ch(r, i - 1) = "-" /\ Ch(r, i + 1) = "-"}

\* rule (b) as stated: a tier letter followed by the end of r or by a keyword
TierBeforeKeyword(r) ==
    {i \in 1..Len(r) :
        /\ Ch(r, i) \in TierLetters
        /\ i = Len(r) \/ \E w \in TierKeywords : StartsWithAt(r, i + 1, w)}

\* rule (b) of the code: the letter also follows a hyphen, and a hyphen may
\* stand between the letter and the keyword
TierAfterHyphenBeforeKeyword(r) ==
    {i \in 2..Len(r) :
        /\ Ch(r, i) \in TierLetters
        /\ Ch(r, i - 1) = "-"
        /\ \/ i = Len(r)
           \/ \E w \in TierKeywords :
                 StartsWithAt(r, i + 1, w) \/ StartsWithAt(r, i + 1, "-" \o w)}

\* rule (c) as stated: a tier letter right after a "$<number>" token of t
TierAfterPrice(t) ==
    {j \in 1..Len(t) :
        /\ Ch(t, j) \in TierLetters
        /\ \E i \in PriceTokens(t) : TokenLast(t, i) = j - 1}

\* rule (c) of the code: the letter is also followed by a hyphen
TierAfterPriceBeforeHyphen(t) ==
    {j \in TierAfterPrice(t) : j < Len(t) /\ Ch(t, j + 1) = "-"}

\* the tier three ordered rules give: the letter at the leftmost position
\* of the first rule that has one, else "R"
TierByRules(r, t, a, b, c) ==
    IF a # {} THEN Ch(r, Smallest(a))
    ELSE IF b # {} THEN Ch(r, Smallest(b))
    ELSE IF c # {} THEN Ch(t, Smallest(c))
    ELSE "R"

\* C10 as stated: the tier is that of the first matching rule among (a) a
\* letter flanked by hyphens, (b) a letter followed by end of string or a
\* keyword, (c) a letter right after a price token; else R.
C10_TierAsStated ==
    (pc = "parse_ret" /\ pcard # <<>>) =>
        LET r == pcard[1].remainder
        IN  /\ pcard[1].rarity \in TierLetters
            /\ pcard[1].rarity =
                  TierByRules(r, Strip(pline), TierFlanked(r),
                              TierBeforeKeyword(r), TierAfterPrice(Strip(pline)))

\* C10 amended: as stated, with rule (b) asking for a hyphen before the
\* letter (and allowing one before the keyword) and rule (c) asking for a
\* hyphen after the letter.
C10_TierByOrderedRules ==
    (pc = "parse_ret" /\ pcard # <<>>) =>
        LET r == pcard[1].remainder
        IN  /\ pcard[1].rarity \in TierLetters
            /\ pcard[1].rarity =
                  TierByRules(r, Strip(pline), TierFlanked(r),
                              TierAfterHyphenBeforeKeyword(r),
                              TierAfterPriceBeforeHyphen(Strip(pline)))

\* C10 witness: rules (a) and (b) found nothing in the remainder and the
\* letter after a price, followed by a hyphen, became the tier.
C10_Witness ==
    /\ pc = "parse_ret"
    /\ pcard # <<>>
    /\ TierFlanked(pcard[1].remainder) = {}
    /\ TierAfterHyphenBeforeKeyword(pcard[1].remainder) = {}
    /\ TierAfterPriceBeforeHyphen(Strip(pline)) # {}
    /\ pcard[1].rarity = "U"

\* C20 as stated: when rules (a) and (b) find nothing in the remainder and
\* the merged text holds a price token immediately followed by a tier
\* letter, the tier is that letter, whatever follows the letter.
C20_TierAfterPriceWhateverFollows ==
    (pc = "parse_ret" /\ pcard # <<>>
        /\ TierFlanked(pcard[1].remainder) = {}
        /\ TierBeforeKeyword(pcard[1].remainder) = {}
        /\ TierAfterHyphenBeforeKeyword(pcard[1].remainder) = {}
        /\ TierAfterPrice(Strip(pline)) # {})
        => pcard[1].rarity \in {Ch(Strip(pline), k) : k \in TierAfterPrice(Strip(pline))}

\* C20 amended: when rules (a) and (b) find nothing in the remainder and
\* the merged text holds a price token immediately followed by a tier
\* letter, the tier is the letter of the first such place where a hyphen
\* follows the letter, and the default R when no such letter is followed by
\* a hyphen.
C20_TierAfterPriceBeforeHyphen ==
    (pc = "parse_ret" /\ pcard # <<>>
        /\ TierFlanked(pcard[1].remainder) = {}
        /\ TierAfterHyphenBeforeKeyword(pcard[1].remainder) = {}
        /\ TierAfterPrice(Strip(pline)) # {})
        => LET t == Strip(pline)
               hyphened == {k \in TierAfterPrice(t) : StartsWithAt(t, k + 1, "-")}
           IN  pcard[1].rarity =
                   IF hyphened = {} THEN "R" ELSE Ch(t, Smallest(hyphened))

\* C20 witness: rules (a) and (b) found nothing, the only letters after a
\* price were followed by no hyphen, and the tier came out as the default.
C20_Witness ==
    /\ pc = "parse_ret"
    /\ pcard # <<>>
    /\ TierFlanked(pcard[1].remainder) = {}
    /\ TierAfterHyphenBeforeKeyword(pcard[1].remainder) = {}
    /\ TierAfterPrice(Strip(pline)) # {}
    /\ \A k \in TierAfterPrice(Strip(pline)) :
           /\ ~StartsWithAt(Strip(pline), k + 1, "-")
           /\ Ch(Strip(pline), k) # "R"
    /\ pcard[1].rarity = "R"

\* the positions at which the literal keyword "Foil" opens in t
FoilAt(t) ==
    {i \in 1..(Len(t) - 3) :
        Ch(t, i) = "F" /\ Ch(t, i + 1) = "o" /\ Ch(t, i + 2) = "i" /\ Ch(t, i + 3) = "l"}

\* C11: for every merged entry that yields a record, the foil flag is true
\* if and only if the literal keyword "Foil" occurs somewhere in the merged
\* text, be it in the group part, in the remainder or after the prices.
C11_FoilIffKeywordAnywhere ==
    (pc = "parse_ret" /\ pcard # <<>>) =>
        (pcard[1].is_foil <=> FoilAt(pline) # {})

\* C11 witness: the flag is set by a keyword that stands outside the
\* remainder, in the group part of the text.
C11_Witness ==
    /\ pc = "parse_ret"
    /\ pcard # <<>>
    /\ pcard[1].is_foil
    /\ FoilAt(pcard[1].set_raw) # {}
    /\ FoilAt(pcard[1].remainder) = {}

\* the language keywords of the table, in table order, with their tags
LanguageKeywords ==
    << <<"Japanese", "Japanese">>, <<"German", "German">>, <<"French", "French">>,
       <<"Italian", "Italian">>, <<"Spanish", "Spanish">>,
       <<"Portuguese", "Portuguese">>, <<"Russian", "Russian">>,
       <<"Korean", "Korean">>,
       <<"ChineseSimplified", "Chinese (Simplified)">>,
       <<"SimplifiedChinese", "Chinese (Simplified)">>,
       <<"ChineseTraditional", "Chinese (Traditional)">>,
       <<"TraditionalChinese", "Chinese (Traditional)">>,
       <<"Phyrexian", "Phyrexian">> >>

\* the character of t at i is a hyphen or a space, or i lies off the string
EdgeOrSeparator(t, i) == i < 1 \/ i > Len(t) \/ Ch(t, i) \in {"-", " "}

\* the keyword w occurs in t bounded on both sides
OccursBounded(t, w) ==
    \E i \in 1..(Len(t) - Len(w) + 1) :
        /\ StartsWithAt(t, i, w)
        /\ EdgeOrSeparator(t, i - 1)
        /\ EdgeOrSeparator(t, i + Len(w))

\* the rows of LanguageKeywords whose keyword occurs bounded in t
QualifyingKeywords(t) ==
    {k \in 1..Len(LanguageKeywords) : OccursBounded(t, LanguageKeywords[k][1])}

\* C12: the localization tag is set to a language only when that language's
\* keyword occurs in the merged text bounded on both sides by a hyphen, a
\* space or a string edge; a keyword embedded in a longer word never sets
\* it; the first qualifying keyword in table order wins; with none the tag
\* stays unset.  The code breaks it: a keyword that ends the text sets the
\* tag whatever precedes it, and the Chinese keywords set it wherever they
\* occur.
C12_TagOnlyFromBoundedKeyword ==
    (pc = "parse_ret" /\ pcard # <<>>) =>
        LET q == QualifyingKeywords(Strip(pline))
        IN  pcard[1].language =
                IF q = {} THEN <<>> ELSE <<LanguageKeywords[Smallest(q)][2]>>

\* t without the characters of its "$<number>" tokens, which open at the
\* positions toks, from index i on
RECURSIVE WithoutPriceTokens(_, _, _)
WithoutPriceTokens(t, toks, i) ==
    LET later == {j \in toks : j >= i}
    IN  IF later = {} THEN From(t, i)
        ELSE Between(t, i, Smallest(later) - 1)
                \o WithoutPriceTokens(t, toks, TokenLast(t, Smallest(later)) + 1)

\* the positions at which the word w opens in t
WordAt(t, w) == {i \in 1..(Len(t) - Len(w) + 1) : SubSeq(t, i, i + Len(w) - 1) = w}

\* nothing is left behind the first "Magic-" marker of t once the price
\* tokens are taken out
NothingAfterMarker(t) ==
    LET u == WithoutPriceTokens(t, PriceTokens(t), 1)
        m == WordAt(u, "Magic-")
    IN  m # {} => Smallest(m) + 6 > Len(u)

\* the record holds the documented default of every field whose token is
\* missing from the text t: a field off its default has its token in t
DefaultsFilled(card, t) ==
    /\ (card.price # [num |-> 0, exp |-> 0] \/ card.total_price # [num |-> 0, exp |-> 0])
          => WordAt(t, "$") # {}
    /\ card.collector_number # "" => WordAt(t, "#") # {}
    /\ card.rarity # "R" => WordAt(t, card.rarity) # {} /\ card.rarity \in TierLetters
    /\ card.condition # "Near Mint" => WordAt(t, "Played") # {}
    /\ card.language # <<>> =>
          \E k \in 1..Len(LanguageKeywords) : WordAt(t, LanguageKeywords[k][1]) # {}

\* C14 as stated: every merged entry with the entry-start shape yields a
\* record, whatever the rest of its text is.
C14_EveryEntryYieldsRecord ==
    (pc = "parse_ret" /\ ShapeEntryStart(Strip(pline))) => pcard # <<>>

\* C14 amended: a merged entry with the entry-start shape yields a record
\* unless its text holds the word "Quantity" or "Description", or nothing is
\* left behind the "Magic-" marker once the price tokens are removed; every
\* record has the defaults for the fields missing from the text.
C14_RecordUnlessHeaderWordOrEmpty ==
    (pc = "parse_ret" /\ ShapeEntryStart(Strip(pline))) =>
        LET t == Strip(pline)
        IN  /\ pcard = <<>> <=>
                  \/ WordAt(t, "Quantity") # {}
                  \/ WordAt(t, "Description") # {}
                  \/ NothingAfterMarker(t)
            /\ pcard # <<>> => DefaultsFilled(pcard[1], t)

\* C14 witness: a record made from an entry that has a price token right
\* behind the marker and neither identifier nor tier, condition or language.
C14_Witness ==
    /\ pc = "parse_ret"
    /\ pcard # <<>>
    /\ WordAt(Strip(pline), "Magic-$") # {}
    /\ WordAt(Strip(pline), "#") = {}
    /\ pcard[1].collector_number = ""
    /\ pcard[1].rarity = "R"
    /\ pcard[1].condition = "Near Mint"
    /\ pcard[1].language = <<>>
    /\ pcard[1].price = [num |-> 0, exp |-> 0]

\* s without the hyphens at its end
WithoutTrailingHyphens(s) ==
    LET keep == {i \in 1..Len(s) : Ch(s, i) # "-"}
    IN  IF keep = {} THEN "" ELSE SubSeq(s, 1, Largest(keep))

\* the positions in r of a "#" that opens an identifier "#<digits>"
IdentifierAt(r) == {i \in 1..(Len(r) - 1) : Ch(r, i) = "#" /\ Ch(r, i + 1) \in Digits}

\* the place in the remainder r of the character that stands at index e of
\* the merged text t: the text behind it, price tokens taken out and blanks
\* at the end dropped, is the end of r; 0 or less when it lies in front of r
PlaceInRemainder(t, e, r) ==
    Len(r) - (Len(Strip("x" \o WithoutPriceTokens(t, PriceTokens(t), e + 1))) - 1)

\* the name span the chain of C21 gives for the remainder r of the text t
NameSpanByChain(r, t) ==
    LET a == TierFlanked(r)
        b == TierAfterHyphenBeforeKeyword(r)
        c == TierAfterPriceBeforeHyphen(t)
    IN  IF IdentifierAt(r) # {}
        THEN WithoutTrailingHyphens(Before(r, Smallest(IdentifierAt(r))))
        ELSE IF a # {} THEN WithoutTrailingHyphens(Before(r, Smallest(a)))
        ELSE IF b # {} THEN WithoutTrailingHyphens(Before(r, Smallest(b)))
        ELSE IF c # {}
        THEN WithoutTrailingHyphens(Before(r, PlaceInRemainder(t, Smallest(c), r)))
        ELSE IF FirstHyphenPos(r) = 0 THEN r ELSE Before(r, FirstHyphenPos(r))

\* C21: the name span is the remainder text before the first identifier
\* "#<digits>"; without identifier, the remainder text before the tier match
\* of whichever tier rule matched; without either, the first
\* hyphen-delimited token of the remainder; in the first two cases with the
\* hyphens at its end trimmed.  The code breaks it: for a tier match of the
\* rule that looks behind a price, the start of the match is a position in
\* the merged text and is used to cut the remainder.
C21_NameSpanByChain ==
    (pc = "parse_ret" /\ pcard # <<>>) =>
        LET r == pcard[1].remainder
            t == Strip(pline)
            c == TierAfterPriceBeforeHyphen(t)
            byPrice == /\ IdentifierAt(r) = {}
                       /\ TierFlanked(r) = {}
                       /\ TierAfterHyphenBeforeKeyword(r) = {}
                       /\ c # {}
        IN  (byPrice => PlaceInRemainder(t, Smallest(c), r) >= 1)
                => pcard[1].card_name_part = NameSpanByChain(r, t)

\* the keyword w occurs in t, written with or without its internal space
ConditionKeywordIn(t, w) ==
    WordAt(t, w \o "Played") # {} \/ WordAt(t, w \o " Played") # {}

\* C22: the condition is decided by an ordered keyword check against the
\* full merged text, each keyword taken with and without its internal space:
\* Lightly Played first, then Moderately Played, then Heavily Played, the
\* first found winning; Near Mint when none is present; the condition is
\* always one of these four values.
C22_ConditionByOrderedKeywords ==
    (pc = "parse_ret" /\ pcard # <<>>) =>
        /\ pcard[1].condition \in
              {"Lightly Played", "Moderately Played", "Heavily Played", "Near Mint"}
        /\ pcard[1].condition =
              IF ConditionKeywordIn(pline, "Lightly") THEN "Lightly Played"
              ELSE IF ConditionKeywordIn(pline, "Moderately") THEN "Moderately Played"
              ELSE IF ConditionKeywordIn(pline, "Heavily") THEN "Heavily Played"
              ELSE "Near Mint"

\* C22 witness: a text that holds "HeavilyPlayed" in front of "Lightly Played"
\* gave the condition Lightly Played.
C22_Witness ==
    /\ pc = "parse_ret"
    /\ pcard # <<>>
    /\ WordAt(pline, "HeavilyPlayed") # {}
    /\ WordAt(pline, "Lightly Played") # {}
    /\ Smallest(WordAt(pline, "HeavilyPlayed")) < Smallest(WordAt(pline, "Lightly Played"))
    /\ pcard[1].condition = "Lightly Played"

\* the records in front of record k that hold its set and collector number
EarlierOfPrinting(k) ==
    {i \in 1..(k - 1) : /\ cards[i].set_name = cards[k].set_name
                        /\ cards[i].collector_number = cards[k].collector_number}

\* the records in front of record k that are searched under its name, the
\* case of the letters put aside
EarlierOfName(k) ==
    {i \in 1..(k - 1) :
        LowerStr(get_search_name(cards[i].card_name))
            = LowerStr(get_search_name(cards[k].card_name))}

\* the records among the first n that the loop has to look up
RECURSIVE LookedUp(_)
LookedUp(n) ==
    IF n = 0 THEN <<>>
    ELSE IF EarlierOfPrinting(n) # {} /\ EarlierOfName(n) # {}
    THEN LookedUp(n - 1)
    ELSE Append(LookedUp(n - 1), n)

\* C23 as stated: during the enrichment of a list of records search_scryfall
\* is called exactly once for each record of the list, in the order of the
\* list, also when several records share name, set and collector number.
C23_OneLookupPerRecord ==
    pc \in {"enrich", "enriched"} => lookups = [i \in 1..epos |-> i]

\* C23 amended: during the enrichment of a list of records search_scryfall is
\* called at most once for each record, in the order of the list: exactly
\* once for a record, unless an earlier record of the list has its set and
\* collector number and an earlier record, the same or another, has its
\* search name up to the case of the letters; such a record is filled from
\* the caches and search_scryfall is not called for it.
C23_OneLookupPerUncachedRecord ==
    pc \in {"enrich", "enriched"} => lookups = LookedUp(epos)

\* C23 witness: the function returned for three records after two calls of
\* search_scryfall, for the first and the second; the third has the set and
\* collector number of the first alone and the search name of the second
\* alone, and was filled from the caches with the image of the first and the
\* color of the second.
C23_Witness ==
    /\ pc = "enriched"
    /\ Len(cards) = 3
    /\ EarlierOfPrinting(3) = {1}
    /\ EarlierOfName(3) = {2}
    /\ lookups = <<1, 2>>
    /\ cards[1].image_url # cards[2].image_url
    /\ cards[1].color # cards[2].color
    /\ cards[3].image_url = cards[1].image_url
    /\ cards[3].color = cards[2].color

\* a call of fetch_scryfall_sets that is not the first of the process
C24_LaterCall ==
    (set_calls >= 1 /\ set_calls' = set_calls + 1) =>
        /\ set_requests' = set_requests
        /\ scryfall_set_cache' = scryfall_set_cache
        /\ set_returned' = scryfall_set_cache

\* C24: across the calls of fetch_scryfall_sets of one process the remote set
\* list is requested at most once; once the first call has completed,
\* loaded or failed, the cache is set and every later call returns the
\* cached mapping without another request; after a failed first call the
\* cached mapping is the empty one, and the fetch is not tried again.
C24_SetListRequestedOnce ==
    /\ [](/\ Len(set_requests) <= 1
          /\ (set_calls >= 1) <=> (Len(set_requests) = 1)
          /\ set_calls >= 1 =>
                /\ scryfall_set_cache # <<>>
                /\ set_returned = scryfall_set_cache
          /\ set_requests = <<"failed">> => scryfall_set_cache = <<EmptyDict>>)
    /\ [][C24_LaterCall]_vars

\* C24 witness: the first call failed, two more calls were made, and the
\* last one returned the empty mapping without a second request.
C24_Witness ==
    /\ pc = "sets"
    /\ set_calls = 3
    /\ set_requests = <<"failed">>
    /\ scryfall_set_cache = <<EmptyDict>>
    /\ set_returned = <<EmptyDict>>

====
